---------------------------- MODULE Spec2Model ----------------------------
(***************************************************************************)
(* A model of the astrology API of Bessaq/ToAMAO:                          *)
(*   - the aspect detector of transits_to_natal (app/routers/              *)
(*     transit_router.py) and of the combined renderer                     *)
(*     (app/utils/svg_combined_chart.py);                                  *)
(*   - the polar placement of the renderer (calculate_point_on_circle);    *)
(*   - the scratch directory /tmp/astro_svg shared by the SVG endpoints    *)
(*     (app/routers/svg_chart_router.py, svg_combined_chart_router.py).    *)
(*                                                                         *)
(* Numbers.  Python floats are modelled in fixed point: a longitude, a     *)
(* separation or an orb is an integer count of 10^-FracDigits degrees, so  *)
(* 91.5 degrees is 91 * Res + Res \div 2.  Canvas coordinates are integer  *)
(* thousandths of a pixel.                                                 *)
(***************************************************************************)
EXTENDS Integers, Sequences, FiniteSets, TLC

VARIABLES
    natal_planets,      \* the ten-planet list read from natal_subject (truncated to PlanetNames)
    transit_planets,    \* the same list read from transit_subject
    aspects_to_natal,   \* transit_router.get_transits_to_natal: the aspect list of the response
    transits_status,    \* 0 = transits_to_natal not called, otherwise the HTTP status
    aspects_found,      \* svg_combined_chart.create_combined_chart_svg: aspects_found
    planet_positions,   \* create_combined_chart_svg: planet_positions (key -> canvas point)
    drawing,            \* the elements added to dwg by planets and aspect lines, in order
    svg_status,         \* 0 = renderer not called, 200 = svg saved, 500 = the renderer raised
    transit_subject,    \* "subject" when the renderer is handed a transit subject, "None" otherwise
    dir,                \* the scratch directory /tmp/astro_svg: path -> file
    clock,              \* the file system's modification clock
    req,                \* the SVG requests in flight: their inputs
    pc,                 \* each SVG request's position in its handler
    found,              \* each request: the path its handler will read / send
    response,           \* each request: what it returned
    request,            \* the API request being handled: endpoint, inputs, how the oracle reacts
    oracle_calls,       \* the house-system codes AstrologicalSubject was constructed with, in order
    http                \* the HTTP outcome of that request: status, detail, files generated

detector_vars == <<natal_planets, transit_planets, aspects_to_natal, transits_status,
                   aspects_found, planet_positions, drawing, svg_status, transit_subject>>
scratch_vars  == <<dir, clock, req, pc, found, response>>
api_vars      == <<request, oracle_calls, http>>
vars == <<natal_planets, transit_planets, aspects_to_natal, transits_status,
          aspects_found, planet_positions, drawing, svg_status, transit_subject,
          dir, clock, req, pc, found, response,
          request, oracle_calls, http>>

---------------------------------------------------------------------------
(* Bounds of the model *)

\* decimal digits kept by the fixed-point representation of a float
FracDigits == 5
\* how many full turns outside [0, 360) an out-of-range longitude may lie (SpecWide)
MaxTurns == 1
\* number of SVG requests in flight at the same time (SpecSvg)
MaxReq == 2
MaxRuns == 2
MaxClock == 2
MaxNameLen == 3

Res == 10 ^ FracDigits

Deg(d) == d * Res

Abs(x) == IF x < 0 THEN -x ELSE x

---------------------------------------------------------------------------
(* The fixed aspect tables, in dictionary (insertion) order *)

\* mutant: Sextile typed with orb 10 instead of 6
aspect_types_sextile_10 ==
    << [name |-> "Conjunction",   aspect_angle |-> 0,   max_orb |-> 8],
       [name |-> "Opposition",    aspect_angle |-> 180, max_orb |-> 8],
       [name |-> "Trine",         aspect_angle |-> 120, max_orb |-> 8],
       [name |-> "Square",        aspect_angle |-> 90,  max_orb |-> 7],
       [name |-> "Sextile",       aspect_angle |-> 60,  max_orb |-> 10],
       [name |-> "Quincunx",      aspect_angle |-> 150, max_orb |-> 5],
       [name |-> "Semi-Sextile",  aspect_angle |-> 30,  max_orb |-> 3],
       [name |-> "Semi-Square",   aspect_angle |-> 45,  max_orb |-> 3],
       [name |-> "Sesqui-Square", aspect_angle |-> 135, max_orb |-> 3],
       [name |-> "Quintile",      aspect_angle |-> 72,  max_orb |-> 2],
       [name |-> "Bi-Quintile",   aspect_angle |-> 144, max_orb |-> 2] >>

aspect_types ==
    << [name |-> "Conjunction",   aspect_angle |-> 0,   max_orb |-> 8],
       [name |-> "Opposition",    aspect_angle |-> 180, max_orb |-> 8],
       [name |-> "Trine",         aspect_angle |-> 120, max_orb |-> 8],
       [name |-> "Square",        aspect_angle |-> 90,  max_orb |-> 7],
       [name |-> "Sextile",       aspect_angle |-> 60,  max_orb |-> 6],
       [name |-> "Quincunx",      aspect_angle |-> 150, max_orb |-> 5],
       [name |-> "Semi-Sextile",  aspect_angle |-> 30,  max_orb |-> 3],
       [name |-> "Semi-Square",   aspect_angle |-> 45,  max_orb |-> 3],
       [name |-> "Sesqui-Square", aspect_angle |-> 135, max_orb |-> 3],
       [name |-> "Quintile",      aspect_angle |-> 72,  max_orb |-> 2],
       [name |-> "Bi-Quintile",   aspect_angle |-> 144, max_orb |-> 2] >>

svg_aspect_types ==
    << [name |-> "Conjuncao",         aspect_angle |-> 0,   max_orb |-> 8],
       [name |-> "Oposicao",          aspect_angle |-> 180, max_orb |-> 8],
       [name |-> "Trigono",           aspect_angle |-> 120, max_orb |-> 8],
       [name |-> "Quadratura",        aspect_angle |-> 90,  max_orb |-> 7],
       [name |-> "Sextil",            aspect_angle |-> 60,  max_orb |-> 6],
       [name |-> "Quincuncio",        aspect_angle |-> 150, max_orb |-> 5],
       [name |-> "Semi-Sextil",       aspect_angle |-> 30,  max_orb |-> 3],
       [name |-> "Semi-Quadratura",   aspect_angle |-> 45,  max_orb |-> 3],
       [name |-> "Sesqui-Quadratura", aspect_angle |-> 135, max_orb |-> 3],
       [name |-> "Quintil",           aspect_angle |-> 72,  max_orb |-> 2],
       [name |-> "Bi-Quintil",        aspect_angle |-> 144, max_orb |-> 2] >>

---------------------------------------------------------------------------
(* The aspect detector *)

\* mutant: the "if diff > 180" replacement is missing
diff_no_wrap(natal_abs_pos, transit_abs_pos) ==
    Abs(natal_abs_pos - transit_abs_pos)

\* mutant: the difference is folded modulo 180 instead of reflected at 180
diff_mod_180(natal_abs_pos, transit_abs_pos) ==
    Abs(natal_abs_pos - transit_abs_pos) % Deg(180)

\* diff = abs(natal_planet.abs_pos - transit_planet.abs_pos);
\* if diff > 180: diff = 360 - diff
diff(natal_abs_pos, transit_abs_pos) ==
    LET d == Abs(natal_abs_pos - transit_abs_pos)
    IN  IF d > Deg(180) THEN Deg(360) - d ELSE d

\* mutant: the abs() around diff - aspect_angle is missing
orb_no_abs(d, aspect_angle) == d - Deg(aspect_angle)

\* orb = abs(diff - aspect_angle)
orb(d, aspect_angle) == Abs(d - Deg(aspect_angle))

\* mutant: "orb < max_orb" instead of "orb <= max_orb"
matches_strict(d, entry) == Abs(d - Deg(entry.aspect_angle)) < Deg(entry.max_orb)

\* mutant: the orb is compared with twice max_orb
matches_double_orb(d, entry) == Abs(d - Deg(entry.aspect_angle)) <= 2 * Deg(entry.max_orb)

\* if orb <= max_orb
matches(d, entry) == orb(d, entry.aspect_angle) <= Deg(entry.max_orb)

\* Python's round(x, ndigits) for x >= 0: the nearest multiple of 10^-ndigits,
\* a tie going to the even multiple.
round(x, ndigits) ==
    LET q    == 10 ^ (FracDigits - ndigits)
        r    == x % q
        down == x - r
    IN  IF 2 * r < q THEN down
        ELSE IF 2 * r > q THEN down + q
        ELSE IF (down \div q) % 2 = 0 THEN down ELSE down + q

\* "if not planet or not hasattr(planet, 'abs_pos'): continue"
usable(planet) == planet.present /\ planet.has_abs_pos

RECURSIVE ConcatAll(_)
ConcatAll(ss) == IF ss = <<>> THEN <<>> ELSE Head(ss) \o ConcatAll(Tail(ss))


\* mutant: the response carries the separation where the orb belongs
pair_aspects_emits_diff(natal_planet, transit_planet) ==
    LET d    == diff(natal_planet.abs_pos, transit_planet.abs_pos)
        hits == SelectSeq([k \in 1..Len(aspect_types) |-> k],
                          LAMBDA k : matches(d, aspect_types[k]))
    IN  [h \in 1..Len(hits) |->
            [transit_planet        |-> transit_planet.name,
             natal_planet_or_point |-> natal_planet.name,
             aspect_name           |-> aspect_types[hits[h]].name,
             orbit                 |-> round(d, 4)]]

\* one planet's aspects: "for aspect_name, (aspect_angle, max_orb) in aspect_types.items()"
\* of transit_router.py, each entry tested on its own, appended in table order
pair_aspects(natal_planet, transit_planet) ==
    LET d    == diff(natal_planet.abs_pos, transit_planet.abs_pos)
        hits == SelectSeq([k \in 1..Len(aspect_types) |-> k],
                          LAMBDA k : matches(d, aspect_types[k]))
    IN  [h \in 1..Len(hits) |->
            [transit_planet        |-> transit_planet.name,
             natal_planet_or_point |-> natal_planet.name,
             aspect_name           |-> aspect_types[hits[h]].name,
             orbit                 |-> round(orb(d, aspect_types[hits[h]].aspect_angle), 4)]]

\* the natal-major double loop of get_transits_to_natal
detect_transits(natal, transit) ==
    ConcatAll([i \in 1..Len(natal) |->
        IF ~usable(natal[i]) THEN <<>>
        ELSE ConcatAll([j \in 1..Len(transit) |->
                IF ~usable(transit[j]) THEN <<>>
                ELSE pair_aspects(natal[i], transit[j])])])

\* mutant: the renderer's scan compares "orb < max_orb"
svg_pair_aspects_strict(transit_planet, natal_planet) ==
    LET d    == diff(natal_planet.abs_pos, transit_planet.abs_pos)
        hits == SelectSeq([k \in 1..Len(svg_aspect_types) |-> k],
                          LAMBDA k : matches_strict(d, svg_aspect_types[k]))
    IN  [h \in 1..Len(hits) |->
            [transit_planet |-> transit_planet.name,
             natal_planet   |-> natal_planet.name,
             aspect         |-> svg_aspect_types[hits[h]].name,
             orb            |-> round(orb(d, svg_aspect_types[hits[h]].aspect_angle), 2)]]

\* the same scan in create_combined_chart_svg: Portuguese names, orb rounded to 2
svg_pair_aspects(transit_planet, natal_planet) ==
    LET d    == diff(natal_planet.abs_pos, transit_planet.abs_pos)
        hits == SelectSeq([k \in 1..Len(svg_aspect_types) |-> k],
                          LAMBDA k : matches(d, svg_aspect_types[k]))
    IN  [h \in 1..Len(hits) |->
            [transit_planet |-> transit_planet.name,
             natal_planet   |-> natal_planet.name,
             aspect         |-> svg_aspect_types[hits[h]].name,
             orb            |-> round(orb(d, svg_aspect_types[hits[h]].aspect_angle), 2)]]

\* the transit-major double loop of create_combined_chart_svg
detect_svg(natal, transit) ==
    ConcatAll([j \in 1..Len(transit) |->
        IF ~usable(transit[j]) THEN <<>>
        ELSE ConcatAll([i \in 1..Len(natal) |->
                IF ~usable(natal[i]) THEN <<>>
                ELSE svg_pair_aspects(transit[j], natal[i])])])

---------------------------------------------------------------------------
(* The renderer's geometry *)

CHART_SIZE == 800
CHART_CENTER == CHART_SIZE \div 2
ZODIAC_RADIUS == (CHART_SIZE * 35) \div 100
PLANET_RADIUS_NATAL == (ZODIAC_RADIUS * 75) \div 100
PLANET_RADIUS_TRANSIT == (ZODIAC_RADIUS * 60) \div 100

\* math.sin of an angle given in hundredths of a degree, in thousandths:
\* Bhaskara's rational approximation 4x(180-x) / (40500 - x(180-x)) on [0, 180],
\* odd symmetry on (180, 360); exact at every multiple of 30 degrees.
sin_milli(centi) ==
    LET c    == centi % 36000
        h    == IF c > 18000 THEN c - 18000 ELSE c
        p    == h * (18000 - h)
        s    == (4 * p) \div ((405000000 - p) \div 1000)
    IN  IF c > 18000 THEN -s ELSE s

\* math.cos(x) = math.sin(x + 90 degrees)
cos_milli(centi) == sin_milli(centi + 9000)

\* angle_rad = math.radians(90 - angle_deg)
\* x = center_x + radius * math.cos(angle_rad); y = center_y - radius * math.sin(angle_rad)
\* center_x, center_y in thousandths of a pixel, radius in pixels,
\* angle_deg in fixed-point degrees
calculate_point_on_circle(center_x, center_y, radius, angle_deg) ==
    LET angle == (Deg(90) - angle_deg) \div (Res \div 100)
    IN  << center_x + radius * cos_milli(angle),
           center_y - radius * sin_milli(angle) >>

\* return planet.abs_pos
get_planet_position_angle(planet) == planet.abs_pos

\* a draw_planet that ignores is_transit and always uses the natal colours
draw_planet_natal_colours(center_x, center_y, radius, planet, is_transit) ==
    LET angle    == get_planet_position_angle(planet)
        position == calculate_point_on_circle(center_x, center_y, radius, angle)
    IN  [kind     |-> "planet",
         name     |-> planet.name,
         position |-> position,
         stroke   |-> "black",
         fill     |-> "white",
         label    |-> calculate_point_on_circle(position[1], position[2], 20, angle)]

\* draw_planet: the background circle of the glyph, placed on the planet's radius
draw_planet(center_x, center_y, radius, planet, is_transit) ==
    LET angle    == get_planet_position_angle(planet)
        position == calculate_point_on_circle(center_x, center_y, radius, angle)
    IN  [kind     |-> "planet",
         name     |-> planet.name,
         position |-> position,
         stroke   |-> IF is_transit THEN "blue" ELSE "black",
         fill     |-> IF is_transit THEN "lightblue" ELSE "white",
         label    |-> calculate_point_on_circle(position[1], position[2], 20, angle)]

Milli(px) == px * 1000

\* the two planet loops of create_combined_chart_svg: one drawn glyph per usable planet
draw_planets(planets, radius, is_transit) ==
    LET idx == SelectSeq([i \in 1..Len(planets) |-> i], LAMBDA i : usable(planets[i]))
    IN  [h \in 1..Len(idx) |->
            draw_planet(Milli(CHART_CENTER), Milli(CHART_CENTER), radius,
                        planets[idx[h]], is_transit)]

\* planet_positions[f"natal_{name}"] = position; a later planet of the same name overwrites
positions_of(drawn, prefix) ==
    [key \in {<<prefix, drawn[h].name>> : h \in 1..Len(drawn)} |->
        LET last == CHOOSE h \in 1..Len(drawn) :
                        /\ drawn[h].name = key[2]
                        /\ \A g \in (h+1)..Len(drawn) : drawn[g].name # key[2]
        IN  drawn[last].position]

\* ASPECT_COLORS, in the order of the dict (the legend shows the first six)
ASPECT_COLORS ==
    << <<"Conjuncao", "#FF0000">>, <<"Oposicao", "#0000FF">>, <<"Trigono", "#00FF00">>,
       <<"Quadratura", "#FF00FF">>, <<"Sextil", "#FFFF00">>, <<"Quincuncio", "#00FFFF">>,
       <<"Semi-Sextil", "#FFA500">>, <<"Semi-Quadratura", "#800080">>,
       <<"Sesqui-Quadratura", "#008080">>, <<"Quintil", "#800000">>,
       <<"Bi-Quintil", "#808000">> >>

\* a draw_aspect_line whose second branch tests "Trigono" only, so that a Sextil stays solid
draw_aspect_line_sextil_solid(start_pos, end_pos, aspect_name) ==
    [kind             |-> "line",
     aspect_name      |-> aspect_name,
     start            |-> start_pos,
     end              |-> end_pos,
     stroke           |-> IF \E i \in 1..Len(ASPECT_COLORS) : ASPECT_COLORS[i][1] = aspect_name
                          THEN ASPECT_COLORS[CHOOSE i \in 1..Len(ASPECT_COLORS) :
                                                ASPECT_COLORS[i][1] = aspect_name][2]
                          ELSE "#999999",
     stroke_width     |-> IF aspect_name \in {"Conjuncao", "Oposicao"} THEN 2 ELSE 1,
     stroke_dasharray |-> IF aspect_name \in {"Conjuncao", "Oposicao"} THEN "None"
                          ELSE IF aspect_name \in {"Trigono"} THEN "5,3"
                          ELSE IF aspect_name \in {"Quadratura", "Quincuncio"} THEN "2,2"
                          ELSE "None"]

\* draw_aspect_line: color = ASPECT_COLORS.get(aspect_name, "#999999");
\* stroke_width 1 and no dash unless one of the three if/elif branches applies
draw_aspect_line(start_pos, end_pos, aspect_name) ==
    [kind             |-> "line",
     aspect_name      |-> aspect_name,
     start            |-> start_pos,
     end              |-> end_pos,
     stroke           |-> IF \E i \in 1..Len(ASPECT_COLORS) : ASPECT_COLORS[i][1] = aspect_name
                          THEN ASPECT_COLORS[CHOOSE i \in 1..Len(ASPECT_COLORS) :
                                                ASPECT_COLORS[i][1] = aspect_name][2]
                          ELSE "#999999",
     stroke_width     |-> IF aspect_name \in {"Conjuncao", "Oposicao"} THEN 2 ELSE 1,
     stroke_dasharray |-> IF aspect_name \in {"Conjuncao", "Oposicao"} THEN "None"
                          ELSE IF aspect_name \in {"Trigono", "Sextil"} THEN "5,3"
                          ELSE IF aspect_name \in {"Quadratura", "Quincuncio"} THEN "2,2"
                          ELSE "None"]

\* an aspect loop that looks both ends of the line up under the natal key
aspect_lines_natal_start(found_aspects, positions) ==
    LET drawable == SelectSeq(found_aspects,
                        LAMBDA a : /\ <<"natal", a.transit_planet>> \in DOMAIN positions
                                   /\ <<"natal", a.natal_planet>> \in DOMAIN positions)
    IN  [h \in 1..Len(drawable) |->
            draw_aspect_line(positions[<<"natal", drawable[h].transit_planet>>],
                             positions[<<"natal", drawable[h].natal_planet>>],
                             drawable[h].aspect)]

\* start_pos = planet_positions.get("transit_..."), end_pos = planet_positions.get("natal_...")
\* "if start_pos and end_pos: draw_aspect_line(dwg, start_pos, end_pos, aspect_name)"
aspect_lines(found_aspects, positions) ==
    LET drawable == SelectSeq(found_aspects,
                        LAMBDA a : /\ <<"transit", a.transit_planet>> \in DOMAIN positions
                                   /\ <<"natal", a.natal_planet>> \in DOMAIN positions)
    IN  [h \in 1..Len(drawable) |->
            draw_aspect_line(positions[<<"transit", drawable[h].transit_planet>>],
                             positions[<<"natal", drawable[h].natal_planet>>],
                             drawable[h].aspect)]

\* draw_zodiac_wheel: the twelve sign divisions, from the wheel to the centre
draw_zodiac_wheel(center_x, center_y, radius) ==
    [i \in 1..12 |->
        [kind             |-> "division",
         start            |-> calculate_point_on_circle(center_x, center_y, radius,
                                                        Deg((i - 1) * 30)),
         end              |-> <<center_x, center_y>>,
         stroke           |-> "black",
         stroke_width     |-> 1,
         stroke_dasharray |-> "5,5"]]

\* the legend of create_combined_chart_svg: a sample line for each of the first six
\* entries of ASPECT_COLORS, 20 pixels apart, all of width 2
legend ==
    [i \in 1..6 |->
        [kind             |-> "legend",
         aspect_name      |-> ASPECT_COLORS[i][1],
         start            |-> <<Milli(250), Milli(CHART_SIZE - 120 + 45 + 20 * (i - 1))>>,
         end              |-> <<Milli(250 + 40), Milli(CHART_SIZE - 120 + 45 + 20 * (i - 1))>>,
         stroke           |-> ASPECT_COLORS[i][2],
         stroke_width     |-> 2,
         stroke_dasharray |-> "None"]]

---------------------------------------------------------------------------
(* The charts the oracle hands to the detector *)

\* natal_planets / transit_planets list the ten classical planets of a subject;
\* the model keeps the first two of the list.
PlanetNames == <<"Sun", "Moon">>

Planet(name, abs_pos) ==
    [present |-> TRUE, has_abs_pos |-> TRUE, name |-> name, abs_pos |-> abs_pos]

\* a planet attribute that is None / empty ("not planet")
NoPlanet(name) ==
    [present |-> FALSE, has_abs_pos |-> FALSE, name |-> name, abs_pos |-> 0]

\* a planet object without the abs_pos attribute ("not hasattr(planet, 'abs_pos')")
NoAbsPos(name) ==
    [present |-> TRUE, has_abs_pos |-> FALSE, name |-> name, abs_pos |-> 0]

\* fractional parts: .0, .5, .12345 and the rounding tie .00005
Fractions == {0, Res \div 2, 12345 * (Res \div 100000), 5 * (Res \div 100000)}

\* longitudes of the oracle, all in [0, 360)
NatalSunLongitudes == {Deg(d) : d \in 0..359}
TransitSunLongitudes == {Deg(d) + f : d \in {0, 91, 130}, f \in Fractions}
NatalMoons == {NoPlanet("Moon"), NoAbsPos("Moon"), Planet("Moon", Deg(200))}
TransitMoons == {NoPlanet("Moon"), Planet("Moon", Deg(28))}

\* longitudes outside [0, 360), up to MaxTurns turns below and above
WideLongitudes ==
    {Deg(d) + Deg(360) * t : d \in {0, 5, 10, 90, 180, 270, 355}, t \in (0 - MaxTurns)..MaxTurns}

ScratchIdle ==
    /\ dir = <<>>
    /\ clock = 0
    /\ req = <<>>
    /\ pc = <<>>
    /\ found = <<>>
    /\ response = <<>>

\* no API request is being handled
ApiIdle ==
    /\ request = <<>>
    /\ oracle_calls = <<>>
    /\ http = <<>>

DetectorStart ==
    /\ aspects_to_natal = <<>>
    /\ transits_status = 0
    /\ aspects_found = <<>>
    /\ planet_positions = <<>>
    /\ drawing = <<>>
    /\ svg_status = 0

Init ==
    /\ natal_planets \in {<<Planet("Sun", a), m>> : a \in NatalSunLongitudes, m \in NatalMoons}
    /\ transit_planets \in {<<Planet("Sun", b), m>> : b \in TransitSunLongitudes, m \in TransitMoons}
    /\ transit_subject = "subject"
    /\ DetectorStart
    /\ ScratchIdle
    /\ ApiIdle

InitWide ==
    /\ natal_planets \in {<<Planet("Sun", a), NoPlanet("Moon")>> : a \in WideLongitudes}
    /\ transit_planets \in {<<Planet("Sun", b), NoPlanet("Moon")>> : b \in WideLongitudes}
    /\ transit_subject = "subject"
    /\ DetectorStart
    /\ ScratchIdle
    /\ ApiIdle

---------------------------------------------------------------------------
(* The two handlers that detect aspects *)

\* the attributes sun ... pluto of a subject
ClassicalPlanets ==
    {"Sun", "Moon", "Mercury", "Venus", "Mars", "Jupiter", "Saturn", "Uranus", "Neptune",
     "Pluto"}

\* PLANETS_MAP adds the two lunar nodes; Chiron is appended when the subject has it
PLANETS_MAP == ClassicalPlanets \cup {"Mean_Node", "True_Node"}

\* a planet list that takes Chiron in as well
classical_and_chiron(bodies) ==
    SelectSeq(bodies, LAMBDA p : p.name \in ClassicalPlanets \cup {"Chiron"})

\* natal_planets = [natal_subject.sun, ..., natal_subject.pluto] and the same list
\* of the transit subject: the ten planets among the bodies of a subject
classical(bodies) == SelectSeq(bodies, LAMBDA p : p.name \in ClassicalPlanets)

\* transit_planets_positions: get_planet_data of every PLANETS_MAP entry, then of
\* Chiron, keeping those that are there and can be read
transit_planets_positions(bodies) ==
    LET kept == SelectSeq(bodies, LAMBDA p : /\ p.name \in PLANETS_MAP \cup {"Chiron"}
                                             /\ p.present
                                             /\ p.has_abs_pos)
    IN  [h \in 1..Len(kept) |-> [name |-> kept[h].name, abs_pos |-> round(kept[h].abs_pos, 4)]]

\* POST /api/v1/transits_to_natal
get_transits_to_natal ==
    /\ transits_status = 0
    /\ aspects_to_natal' = detect_transits(classical(natal_planets), classical(transit_planets))
    /\ transits_status' = 200
    /\ http' = [status |-> 200, detail |-> <<>>, files_generated |-> 0,
                transit_planets_positions |-> transit_planets_positions(transit_planets)]
    /\ UNCHANGED <<natal_planets, transit_planets, aspects_found, planet_positions,
                   drawing, svg_status, transit_subject>>
    /\ UNCHANGED scratch_vars
    /\ UNCHANGED <<request, oracle_calls>>

\* a renderer that also writes the time of the run into the chart
chart_elements_dated(natal, transit) ==
    LET natal_drawn   == draw_planets(natal, PLANET_RADIUS_NATAL, FALSE)
        transit_drawn == draw_planets(transit, PLANET_RADIUS_TRANSIT, TRUE)
        positions     == positions_of(natal_drawn, "natal")
                             @@ positions_of(transit_drawn, "transit")
        aspects       == detect_svg(natal, transit)
    IN  [planet_positions |-> positions,
         aspects_found    |-> aspects,
         drawing          |-> << [kind |-> "date", time |-> clock] >>
                              \o natal_drawn \o transit_drawn
                              \o aspect_lines(aspects, positions)
                              \o legend]

\* what create_combined_chart_svg adds to the drawing, in order: the wheel, the natal
\* planets, the transit planets, one line per aspect found, the legend
chart_elements(natal, transit) ==
    LET natal_drawn   == draw_planets(natal, PLANET_RADIUS_NATAL, FALSE)
        transit_drawn == draw_planets(transit, PLANET_RADIUS_TRANSIT, TRUE)
        positions     == positions_of(natal_drawn, "natal")
                             @@ positions_of(transit_drawn, "transit")
        aspects       == detect_svg(natal, transit)
    IN  [planet_positions |-> positions,
         aspects_found    |-> aspects,
         drawing          |-> draw_zodiac_wheel(Milli(CHART_CENTER), Milli(CHART_CENTER),
                                                ZODIAC_RADIUS)
                              \o natal_drawn \o transit_drawn
                              \o aspect_lines(aspects, positions)
                              \o legend]

\* svg_combined_chart.create_combined_chart_svg.  The title is formatted from
\* natal_subject.name and transit_subject.name before anything else is drawn:
\* with transit_subject None that raises AttributeError and nothing is saved.
create_combined_chart_svg ==
    /\ svg_status = 0
    /\ IF transit_subject = "None"
       THEN /\ svg_status' = 500
            /\ UNCHANGED <<planet_positions, aspects_found, drawing>>
       ELSE LET chart == chart_elements(natal_planets, transit_planets)
            IN  /\ planet_positions' = chart.planet_positions
                /\ aspects_found' = chart.aspects_found
                /\ drawing' = chart.drawing
                /\ svg_status' = 200
    /\ UNCHANGED <<natal_planets, transit_planets, aspects_to_natal, transits_status,
                   transit_subject>>
    /\ UNCHANGED scratch_vars
    /\ UNCHANGED api_vars

Next ==
    \/ get_transits_to_natal
    \/ create_combined_chart_svg

Spec == Init /\ [][Next]_vars

SpecWide == InitWide /\ [][Next]_vars

\* the renderer is handed a natal subject and None in place of the transit subject
InitBase ==
    /\ natal_planets \in {<<Planet("Sun", a), m>> : a \in NatalSunLongitudes, m \in NatalMoons}
    /\ transit_planets = <<>>
    /\ transit_subject = "None"
    /\ DetectorStart
    /\ ScratchIdle
    /\ ApiIdle

NextBase == create_combined_chart_svg

SpecBase == InitBase /\ [][NextBase]_vars

---------------------------------------------------------------------------
(* The combined chart rendered again and again from the same two subjects,  *)
(* while time passes and other requests use the scratch directory           *)

\* a handful of natal and transit charts
InitRender ==
    /\ natal_planets \in {<<Planet("Sun", Deg(a)), m>> : a \in {0, 120}, m \in NatalMoons}
    /\ transit_planets \in
          {<<Planet("Sun", Deg(91) + f), m>> : f \in {0, Res \div 2}, m \in TransitMoons}
    /\ transit_subject = "subject"
    /\ DetectorStart
    /\ ScratchIdle
    /\ ApiIdle

\* the path generate_combined_chart saves to
svg_path == <<"svg_combined_chart", "Natal Chart">>

\* a file some other request left in /tmp/astro_svg
other_path == <<"svg_chart", "Ana">>

\* generate_svg_combined_chart from the clean-up loop to the saved file: the old
\* *.svg files are unlinked, the chart is drawn and saved under svg_path.
\* response keeps what each run drew, when, and which files it found.
generate_combined_chart ==
    /\ Len(response) < MaxRuns
    /\ LET chart == chart_elements(natal_planets, transit_planets)
       IN  /\ planet_positions' = chart.planet_positions
           /\ aspects_found' = chart.aspects_found
           /\ drawing' = chart.drawing
           /\ dir' = (svg_path :> [content |-> chart.drawing, mtime |-> clock, writer |-> 0])
           /\ response' = Append(response,
                                 [body |-> chart.drawing, time |-> clock, scratch |-> DOMAIN dir])
    /\ svg_status' = 200
    /\ UNCHANGED <<natal_planets, transit_planets, aspects_to_natal, transits_status,
                   transit_subject>>
    /\ UNCHANGED <<clock, req, pc, found>>
    /\ UNCHANGED api_vars

\* time passes between two requests
tick ==
    /\ clock < MaxClock
    /\ clock' = clock + 1
    /\ UNCHANGED <<dir, req, pc, found, response>>
    /\ UNCHANGED detector_vars
    /\ UNCHANGED api_vars

\* another request runs the clean-up loop of the shared directory ...
other_request_clears ==
    /\ DOMAIN dir # {}
    /\ dir' = <<>>
    /\ UNCHANGED <<clock, req, pc, found, response>>
    /\ UNCHANGED detector_vars
    /\ UNCHANGED api_vars

\* ... or leaves a chart of its own there
other_request_writes ==
    /\ other_path \notin DOMAIN dir
    /\ dir' = (other_path :> [content |-> <<>>, mtime |-> clock, writer |-> 0]) @@ dir
    /\ UNCHANGED <<clock, req, pc, found, response>>
    /\ UNCHANGED detector_vars
    /\ UNCHANGED api_vars

NextRender ==
    \/ generate_combined_chart
    \/ tick
    \/ other_request_clears
    \/ other_request_writes

SpecRender == InitRender /\ [][NextRender]_vars

---------------------------------------------------------------------------
(* draw_aspect_line on its own: the last statement of the aspect loop of    *)
(* create_combined_chart_svg, for any aspect name a caller may hand it      *)

\* the eleven names of the renderer's table, an English name and a name of no table
LineNames ==
    {svg_aspect_types[i].name : i \in 1..Len(svg_aspect_types)} \cup {"Conjunction", "Novil"}

\* positions of a transit glyph (inner circle) and of a natal glyph (outer circle)
LineStarts ==
    {calculate_point_on_circle(Milli(CHART_CENTER), Milli(CHART_CENTER),
                               PLANET_RADIUS_TRANSIT, Deg(d)) : d \in {0, 90, 200}}
LineEnds ==
    {calculate_point_on_circle(Milli(CHART_CENTER), Milli(CHART_CENTER),
                               PLANET_RADIUS_NATAL, Deg(d)) : d \in {0, 120, 270}}

\* one aspect has been found and both planets have been drawn
InitLine ==
    /\ natal_planets = <<>>
    /\ transit_planets = <<>>
    /\ transit_subject = "subject"
    /\ aspects_to_natal = <<>>
    /\ transits_status = 0
    /\ aspects_found \in
          {<< [transit_planet |-> "Sun", natal_planet |-> "Moon", aspect |-> n, orb |-> 0] >> :
              n \in LineNames}
    /\ planet_positions \in
          {(<<"transit", "Sun">> :> s) @@ (<<"natal", "Moon">> :> e) :
              s \in LineStarts, e \in LineEnds}
    /\ drawing = <<>>
    /\ svg_status = 0
    /\ ScratchIdle
    /\ ApiIdle

\* start_pos / end_pos are looked up and draw_aspect_line adds the line
draw_found_aspects ==
    /\ svg_status = 0
    /\ drawing' = aspect_lines(aspects_found, planet_positions)
    /\ svg_status' = 200
    /\ UNCHANGED <<natal_planets, transit_planets, aspects_to_natal, transits_status,
                   aspects_found, planet_positions, transit_subject>>
    /\ UNCHANGED scratch_vars
    /\ UNCHANGED api_vars

NextLine == draw_found_aspects

SpecLine == InitLine /\ [][NextLine]_vars

---------------------------------------------------------------------------
(* The scratch directory /tmp/astro_svg of the SVG endpoints.               *)
(* Each request runs its handler's steps in order; steps of different       *)
(* requests (threads, worker processes, or the event loop between a         *)
(* handler's return and the sending of its FileResponse) interleave freely. *)

Requests == 1..MaxReq

\* data.natal_chart.name: the chart names two requests may carry
ChartNames == {"Ana", "Bia"}

\* POST /api/v1/svg_chart, /api/v1/svg_combined_chart and their base64 variants
Endpoints ==
    {"svg_chart", "svg_combined_chart", "svg_chart_base64", "svg_combined_chart_base64"}

\* the handler a base64 endpoint awaits to have the chart made
renderer(endpoint) ==
    IF endpoint \in {"svg_chart", "svg_chart_base64"} THEN "svg_chart" ELSE "svg_combined_chart"

\* the file a request's renderer writes: KerykeionChartSVG names it after the
\* subject, generate_combined_chart after the natal and transit names
\* (file_name = f"{natal_subject.name}_com_transitos_{transit_subject.name}.svg")
file_name(r) == <<renderer(req[r].endpoint), req[r].name>>

\* the artifact rendered from request r's chart inputs (every request carries
\* chart inputs of its own)
artifact(r) == r

\* the bytes of the chart file of an artifact: a different byte string for each,
\* of 3, 4, 5 ... bytes
svg_bytes(content) == SubSeq(<<60, 115, 118, 103, 32, 120, 109, 108>>, 1, 2 + content)

\* the base64 alphabet of RFC 4648
B64Alphabet ==
    << "A", "B", "C", "D", "E", "F", "G", "H", "I", "J", "K", "L", "M",
       "N", "O", "P", "Q", "R", "S", "T", "U", "V", "W", "X", "Y", "Z",
       "a", "b", "c", "d", "e", "f", "g", "h", "i", "j", "k", "l", "m",
       "n", "o", "p", "q", "r", "s", "t", "u", "v", "w", "x", "y", "z",
       "0", "1", "2", "3", "4", "5", "6", "7", "8", "9", "+", "/" >>

\* the character of a 6-bit value
B64Char(sextet) == B64Alphabet[sextet + 1]

\* base64.b64encode(svg_content).decode("utf-8"): three bytes become four characters,
\* a last group of one or two bytes is padded with "=" to four characters
b64encode(bytes) ==
    LET RECURSIVE enc(_)
        enc(b) ==
            IF Len(b) = 0 THEN <<>>
            ELSE IF Len(b) = 1 THEN
                << B64Char(b[1] \div 4), B64Char((b[1] % 4) * 16), "=", "=" >>
            ELSE IF Len(b) = 2 THEN
                << B64Char(b[1] \div 4), B64Char((b[1] % 4) * 16 + b[2] \div 16),
                   B64Char((b[2] % 16) * 4), "=" >>
            ELSE
                << B64Char(b[1] \div 4), B64Char((b[1] % 4) * 16 + b[2] \div 16),
                   B64Char((b[2] % 16) * 4 + b[3] \div 64), B64Char(b[3] % 64) >>
                \o enc(SubSeq(b, 4, Len(b)))
    IN  enc(bytes)

\* the JSON body of a base64 endpoint:
\* {"svg_base64": base64_svg, "data_uri": f"data:image/svg+xml;base64,{base64_svg}"}
base64_body(svg_content) ==
    LET base64_svg == b64encode(svg_content)
    IN  [svg_base64 |-> base64_svg,
         data_uri   |-> << "d", "a", "t", "a", ":", "i", "m", "a", "g", "e", "/",
                           "s", "v", "g", "+", "x", "m", "l", ";",
                           "b", "a", "s", "e", "6", "4", "," >> \o base64_svg]

\* what a response carries besides its status: the chart it was made from and,
\* for a base64 endpoint, the two strings of the JSON body
answer(r, status, content) ==
    IF status = 200 /\ req[r].endpoint \in {"svg_chart_base64", "svg_combined_chart_base64"}
    THEN [status     |-> status,
          body       |-> content,
          svg_base64 |-> base64_body(svg_bytes(content)).svg_base64,
          data_uri   |-> base64_body(svg_bytes(content)).data_uri]
    ELSE [status |-> status, body |-> content, svg_base64 |-> <<>>, data_uri |-> <<>>]

\* for old_file in temp_dir.glob("*.svg"): old_file.unlink()
clear_scratch(r) ==
    /\ pc[r] = "clear"
    /\ dir' = <<>>
    /\ pc' = [pc EXCEPT ![r] = "write"]
    /\ UNCHANGED <<clock, req, found, response>>
    /\ UNCHANGED detector_vars
    /\ UNCHANGED api_vars

\* chart.makeSVG() / dwg.save(): the chart file is written (an existing file of
\* the same name is overwritten); svg_combined_chart then returns
\* FileResponse(path=svg_path) and its handler is over
write_chart(r) ==
    /\ pc[r] = "write"
    /\ dir' = (file_name(r) :> [content |-> artifact(r), mtime |-> clock + 1, writer |-> r]) @@ dir
    /\ clock' = clock + 1
    /\ found' = [found EXCEPT ![r] = file_name(r)]
    /\ pc' = [pc EXCEPT ![r] = CASE renderer(req[r].endpoint) = "svg_chart" -> "read"
                                  [] req[r].endpoint = "svg_combined_chart" -> "send"
                                  [] OTHER -> "open"]
    /\ UNCHANGED <<req, response>>
    /\ UNCHANGED detector_vars
    /\ UNCHANGED api_vars

\* svg_files.sort(key=os.path.getmtime, reverse=True); svg_file_path = svg_files[0]
newest(files) ==
    CHOOSE f \in DOMAIN files : \A g \in DOMAIN files : files[g].mtime <= files[f].mtime

\* svg_chart: glob the directory, take the newest file, read it, remove it and
\* return its content; FileNotFoundError -> 500 when the directory is empty
read_newest(r) ==
    /\ pc[r] = "read"
    /\ IF DOMAIN dir = {}
       THEN /\ response' = [response EXCEPT ![r] = answer(r, 500, 0)]
            /\ UNCHANGED <<dir, found>>
       ELSE LET svg_file_path == newest(dir)
            IN  /\ response' = [response EXCEPT
                                    ![r] = answer(r, 200, dir[svg_file_path].content)]
                /\ found' = [found EXCEPT ![r] = svg_file_path]
                /\ dir' = [f \in DOMAIN dir \ {svg_file_path} |-> dir[f]]
    /\ pc' = [pc EXCEPT ![r] = "done"]
    /\ UNCHANGED <<clock, req>>
    /\ UNCHANGED detector_vars
    /\ UNCHANGED api_vars

\* svg_combined_chart: the FileResponse is sent after the handler returned; it
\* reads whatever is at svg_path then, and fails when the file is gone
send_file(r) ==
    /\ pc[r] = "send"
    /\ IF found[r] \in DOMAIN dir
       THEN response' = [response EXCEPT ![r] = answer(r, 200, dir[found[r]].content)]
       ELSE response' = [response EXCEPT ![r] = answer(r, 500, 0)]
    /\ pc' = [pc EXCEPT ![r] = "done"]
    /\ UNCHANGED <<dir, clock, req, found>>
    /\ UNCHANGED detector_vars
    /\ UNCHANGED api_vars

\* svg_combined_chart_base64: "with open(svg_response.path, 'rb') as f: svg_content = f.read()"
\* on the path of the FileResponse the awaited handler returned; a missing file
\* raises FileNotFoundError -> 500
open_svg_path(r) ==
    /\ pc[r] = "open"
    /\ IF found[r] \in DOMAIN dir
       THEN response' = [response EXCEPT ![r] = answer(r, 200, dir[found[r]].content)]
       ELSE response' = [response EXCEPT ![r] = answer(r, 500, 0)]
    /\ pc' = [pc EXCEPT ![r] = "done"]
    /\ UNCHANGED <<dir, clock, req, found>>
    /\ UNCHANGED detector_vars
    /\ UNCHANGED api_vars

InitSvg ==
    /\ natal_planets = <<>>
    /\ transit_planets = <<>>
    /\ transit_subject = "subject"
    /\ DetectorStart
    /\ ApiIdle
    /\ dir = <<>>
    /\ clock = 0
    /\ req \in [Requests -> [endpoint : Endpoints, name : ChartNames]]
    /\ pc = [r \in Requests |-> "clear"]
    /\ found = [r \in Requests |-> <<>>]
    /\ response = [r \in Requests |->
                        [status |-> 0, body |-> 0, svg_base64 |-> <<>>, data_uri |-> <<>>]]

NextSvg ==
    \E r \in Requests :
        \/ clear_scratch(r)
        \/ write_chart(r)
        \/ read_newest(r)
        \/ send_file(r)
        \/ open_svg_path(r)

SpecSvg == InitSvg /\ [][NextSvg]_vars

---------------------------------------------------------------------------
(* Vocabulary of the properties, stated without the detector's own operators *)

\* the aspect table as the specification prints it: name, exact angle, max orb
SpecTable ==
    << <<"Conjunction", 0, 8>>, <<"Opposition", 180, 8>>, <<"Trine", 120, 8>>,
       <<"Square", 90, 7>>, <<"Sextile", 60, 6>>, <<"Quincunx", 150, 5>>,
       <<"Semi-Sextile", 30, 3>>, <<"Semi-Square", 45, 3>>,
       <<"Sesqui-Square", 135, 3>>, <<"Quintile", 72, 2>>, <<"Bi-Quintile", 144, 2>> >>

\* the renderer's name of the k-th entry
SvgNames ==
    << "Conjuncao", "Oposicao", "Trigono", "Quadratura", "Sextil", "Quincuncio",
       "Semi-Sextil", "Semi-Quadratura", "Sesqui-Quadratura", "Quintil", "Bi-Quintil" >>

InRange(lon) == 0 <= lon /\ lon < 360 * Res

\* the smaller of the two complementary arcs between two longitudes
SmallerArc(a, b) ==
    LET x == (a - b) % (360 * Res)
    IN  IF x > 180 * Res THEN 360 * Res - x ELSE x

Distance(x, y) == IF x < y THEN y - x ELSE x - y

\* y is x rounded to ndigits decimal places
IsRounded(y, x, ndigits) ==
    LET q == 10 ^ (FracDigits - ndigits)
    IN  y % q = 0 /\ 2 * Distance(y, x) <= q

\* the (natal index, transit index) pairs the detectors consider
Pairs ==
    {p \in (1..Len(natal_planets)) \X (1..Len(transit_planets)) :
        /\ natal_planets[p[1]].present /\ natal_planets[p[1]].has_abs_pos
        /\ transit_planets[p[2]].present /\ transit_planets[p[2]].has_abs_pos}

NatalLon(p) == natal_planets[p[1]].abs_pos
TransitLon(p) == transit_planets[p[2]].abs_pos

\* the aspects transits_to_natal returned for one pair
Emitted(p) ==
    SelectSeq(aspects_to_natal,
              LAMBDA a : /\ a.natal_planet_or_point = natal_planets[p[1]].name
                         /\ a.transit_planet = transit_planets[p[2]].name)

\* the aspects the renderer recorded for one pair
SvgEmitted(p) ==
    SelectSeq(aspects_found,
              LAMBDA a : /\ a.natal_planet = natal_planets[p[1]].name
                         /\ a.transit_planet = transit_planets[p[2]].name)

Names(aspects) == {aspects[h].aspect_name : h \in 1..Len(aspects)}

---------------------------------------------------------------------------
(* C1..C7: the aspect detector *)

\* C1: for longitudes a, b in [0, 360) the separation the detector computes is the
\* same for (a, b) and (b, a) and lies in [0, 180].
C1_SeparationSymmetricBounded ==
    transits_status = 200 =>
        \A p \in Pairs :
            InRange(NatalLon(p)) /\ InRange(TransitLon(p)) =>
                /\ diff(NatalLon(p), TransitLon(p)) = diff(TransitLon(p), NatalLon(p))
                /\ 0 <= diff(NatalLon(p), TransitLon(p))
                /\ diff(NatalLon(p), TransitLon(p)) <= 180 * Res
                /\ diff(NatalLon(p), TransitLon(p)) = SmallerArc(NatalLon(p), TransitLon(p))

\* C1 witness: the detector has run on a pair whose raw difference exceeds 180,
\* so the "360 - diff" replacement was taken.
C1_Witness ==
    /\ transits_status = 200
    /\ \E p \in Pairs : NatalLon(p) - TransitLon(p) > 180 * Res

\* C2 as stated: per pair and table entry exactly one aspect when
\* |separation - exactAngle| <= maxOrb, none otherwise, and the emitted orb
\* EQUALS |separation - exactAngle|.
C2_EmittedOrbIsExact ==
    /\ transits_status = 200 =>
        \A p \in Pairs : \A k \in 1..Len(SpecTable) :
            LET o  == Distance(SmallerArc(NatalLon(p), TransitLon(p)), SpecTable[k][2] * Res)
                es == SelectSeq(Emitted(p), LAMBDA a : a.aspect_name = SpecTable[k][1])
            IN  IF o <= SpecTable[k][3] * Res
                THEN Len(es) = 1 /\ es[1].orbit = o /\ es[1].orbit >= 0
                ELSE Len(es) = 0
    /\ svg_status = 200 =>
        \A p \in Pairs : \A k \in 1..Len(SpecTable) :
            LET o  == Distance(SmallerArc(NatalLon(p), TransitLon(p)), SpecTable[k][2] * Res)
                es == SelectSeq(SvgEmitted(p), LAMBDA a : a.aspect = SvgNames[k])
            IN  IF o <= SpecTable[k][3] * Res
                THEN Len(es) = 1 /\ es[1].orb = o /\ es[1].orb >= 0
                ELSE Len(es) = 0

\* C2 amended: per pair and table entry exactly one aspect when
\* |separation - exactAngle| <= maxOrb, none otherwise, each entry on its own; the
\* emitted orb is |separation - exactAngle| rounded to 4 decimal places by
\* transits_to_natal and to 2 decimal places by the renderer, and is >= 0.
C2_EmittedPerEntryRoundedOrb ==
    /\ transits_status = 200 =>
        \A p \in Pairs : \A k \in 1..Len(SpecTable) :
            LET o  == Distance(SmallerArc(NatalLon(p), TransitLon(p)), SpecTable[k][2] * Res)
                es == SelectSeq(Emitted(p), LAMBDA a : a.aspect_name = SpecTable[k][1])
            IN  IF o <= SpecTable[k][3] * Res
                THEN Len(es) = 1 /\ IsRounded(es[1].orbit, o, 4) /\ es[1].orbit >= 0
                ELSE Len(es) = 0
    /\ svg_status = 200 =>
        \A p \in Pairs : \A k \in 1..Len(SpecTable) :
            LET o  == Distance(SmallerArc(NatalLon(p), TransitLon(p)), SpecTable[k][2] * Res)
                es == SelectSeq(SvgEmitted(p), LAMBDA a : a.aspect = SvgNames[k])
            IN  IF o <= SpecTable[k][3] * Res
                THEN Len(es) = 1 /\ IsRounded(es[1].orb, o, 2) /\ es[1].orb >= 0
                ELSE Len(es) = 0

\* C2 witness: both detectors have run and each emitted an aspect whose orb is
\* not the exact |separation - exactAngle| (rounding changed it), and one whose
\* orb is exactly the maximum orb of its entry.
C2_Witness ==
    /\ transits_status = 200 /\ svg_status = 200
    /\ \E p \in Pairs : \E k \in 1..Len(SpecTable) :
        LET o == Distance(SmallerArc(NatalLon(p), TransitLon(p)), SpecTable[k][2] * Res)
        IN  /\ o <= SpecTable[k][3] * Res
            /\ \E h \in 1..Len(Emitted(p)) :
                /\ Emitted(p)[h].aspect_name = SpecTable[k][1]
                /\ Emitted(p)[h].orbit # o
            /\ \E h \in 1..Len(SvgEmitted(p)) :
                /\ SvgEmitted(p)[h].aspect = SvgNames[k]
                /\ SvgEmitted(p)[h].orb # o
    /\ \E p \in Pairs : \E k \in 1..Len(SpecTable) :
        Distance(SmallerArc(NatalLon(p), TransitLon(p)), SpecTable[k][2] * Res)
            = SpecTable[k][3] * Res

\* C3 as stated: the orb windows of the default table do not overlap, so no planet
\* pair yields two aspects.
C3_NoPairHasTwoAspects ==
    /\ transits_status = 200 => \A p \in Pairs : Len(Emitted(p)) <= 1
    /\ svg_status = 200 => \A p \in Pairs : Len(SvgEmitted(p)) <= 1

\* C3 amended: the only orb windows of the default table that overlap are those of
\* Quincunx [145, 155] and Bi-Quintile [142, 146]: a pair whose separation lies in
\* [145, 146] yields exactly these two aspects, every other pair yields at most one.
C3_OnlyQuincunxBiQuintileOverlap ==
    /\ transits_status = 200 =>
        \A p \in Pairs :
            LET sep == SmallerArc(NatalLon(p), TransitLon(p))
            IN  IF 145 * Res <= sep /\ sep <= 146 * Res
                THEN /\ Len(Emitted(p)) = 2
                     /\ Names(Emitted(p)) = {"Quincunx", "Bi-Quintile"}
                ELSE Len(Emitted(p)) <= 1
    /\ svg_status = 200 =>
        \A p \in Pairs :
            LET sep == SmallerArc(NatalLon(p), TransitLon(p))
            IN  IF 145 * Res <= sep /\ sep <= 146 * Res
                THEN /\ Len(SvgEmitted(p)) = 2
                     /\ {SvgEmitted(p)[h].aspect : h \in 1..2} = {"Quincuncio", "Bi-Quintil"}
                ELSE Len(SvgEmitted(p)) <= 1

\* C3 witness: both detectors have run on a pair 145.5 degrees apart and each
\* reported two aspects for it.
C3_Witness ==
    /\ transits_status = 200 /\ svg_status = 200
    /\ \E p \in Pairs :
        /\ SmallerArc(NatalLon(p), TransitLon(p)) = 145 * Res + Res \div 2
        /\ Len(Emitted(p)) = 2
        /\ Len(SvgEmitted(p)) = 2

\* C4 as stated: whatever longitudes the oracle supplies, also outside [0, 360), the
\* separation used for classification is the smaller of the two complementary arcs
\* of the longitudes taken modulo 360, never negative and never above 180.
C4_SeparationIsSmallerArcOfReducedLongitudes ==
    transits_status = 200 =>
        \A p \in Pairs :
            /\ diff(NatalLon(p), TransitLon(p)) >= 0
            /\ diff(NatalLon(p), TransitLon(p)) <= 180 * Res
            /\ diff(NatalLon(p), TransitLon(p)) = SmallerArc(NatalLon(p), TransitLon(p))

\* C5: a pair exactly 180 degrees apart gets the Opposition aspect and no other.
C5_Exactly180IsOppositionOnly ==
    transits_status = 200 =>
        \A p \in Pairs :
            SmallerArc(NatalLon(p), TransitLon(p)) = 180 * Res =>
                /\ Len(Emitted(p)) = 1
                /\ Emitted(p)[1].aspect_name = "Opposition"
                /\ Emitted(p)[1].orbit = 0

\* C5 witness: transits_to_natal has answered for a pair exactly 180 degrees apart.
C5_Witness ==
    /\ transits_status = 200
    /\ \E p \in Pairs : Distance(NatalLon(p), TransitLon(p)) = 180 * Res

\* C6: a separation equal to an entry's exact angle is emitted for that entry with
\* orb 0; planets at 10 and 130 degrees yield a Trine with orb 0.0.
C6_ExactAngleHasOrbZero ==
    /\ transits_status = 200 =>
        /\ \A p \in Pairs : \A k \in 1..Len(SpecTable) :
            SmallerArc(NatalLon(p), TransitLon(p)) = SpecTable[k][2] * Res =>
                \E h \in 1..Len(Emitted(p)) :
                    /\ Emitted(p)[h].aspect_name = SpecTable[k][1]
                    /\ Emitted(p)[h].orbit = 0
        /\ (natal_planets[1].abs_pos = 10 * Res /\ transit_planets[1].abs_pos = 130 * Res) =>
                \E h \in 1..Len(aspects_to_natal) :
                    aspects_to_natal[h] = [transit_planet |-> "Sun",
                                           natal_planet_or_point |-> "Sun",
                                           aspect_name |-> "Trine", orbit |-> 0]
    /\ svg_status = 200 =>
        /\ \A p \in Pairs : \A k \in 1..Len(SpecTable) :
            SmallerArc(NatalLon(p), TransitLon(p)) = SpecTable[k][2] * Res =>
                \E h \in 1..Len(SvgEmitted(p)) :
                    /\ SvgEmitted(p)[h].aspect = SvgNames[k]
                    /\ SvgEmitted(p)[h].orb = 0
        /\ (natal_planets[1].abs_pos = 10 * Res /\ transit_planets[1].abs_pos = 130 * Res) =>
                \E h \in 1..Len(aspects_found) :
                    aspects_found[h] = [transit_planet |-> "Sun", natal_planet |-> "Sun",
                                        aspect |-> "Trigono", orb |-> 0]

\* C6 witness: both detectors have run on a natal Sun at 10 and a transit Sun at 130.
C6_Witness ==
    /\ transits_status = 200 /\ svg_status = 200
    /\ natal_planets[1].abs_pos = 10 * Res
    /\ transit_planets[1].abs_pos = 130 * Res

\* C7: planets at 0 and 91.5 yield Square with orb 1.5 and nothing else; any
\* separation in Square's window [83, 97] matches Square only.
C7_SquareWindowMatchesSquareOnly ==
    transits_status = 200 =>
        /\ \A p \in Pairs :
            LET sep == SmallerArc(NatalLon(p), TransitLon(p))
            IN  (83 * Res <= sep /\ sep <= 97 * Res) =>
                    /\ Len(Emitted(p)) = 1
                    /\ Emitted(p)[1].aspect_name = "Square"
        /\ (natal_planets[1].abs_pos = 0 /\ transit_planets[1].abs_pos = 91 * Res + Res \div 2) =>
                Emitted(<<1, 1>>) = << [transit_planet |-> "Sun",
                                        natal_planet_or_point |-> "Sun",
                                        aspect_name |-> "Square",
                                        orbit |-> Res + Res \div 2] >>

\* C7 witness: transits_to_natal has answered for a natal Sun at 0 and a transit
\* Sun at 91.5.
C7_Witness ==
    /\ transits_status = 200
    /\ natal_planets[1].abs_pos = 0
    /\ transit_planets[1].abs_pos = 91 * Res + Res \div 2

---------------------------------------------------------------------------
(* C8, C9: concurrent SVG requests *)

Done(r) == pc[r] = "done"

\* C8 as stated: with several SVG requests in flight, in every interleaving of
\* their steps each request that completes successfully returns the artifact
\* rendered from its own inputs, never another request's.
C8_EachRequestReturnsOwnArtifact ==
    \A r \in DOMAIN pc :
        (Done(r) /\ response[r].status = 200) => response[r].body = r

\* the files in the directory written by a request other than r that has not
\* yet delivered its response
ForeignFiles(r) ==
    {f \in DOMAIN dir : dir[f].writer # r /\ ~Done(dir[f].writer)}

\* C9 as stated: the scratch file of an invocation is private to it: no step of
\* one request deletes, overwrites or reads a file written by another request
\* that has not yet delivered its response.
C9_ScratchFileIsPrivate ==
    [][\A r \in DOMAIN pc :
            pc'[r] # pc[r] =>
                \A f \in ForeignFiles(r) :
                    /\ f \in DOMAIN dir'
                    /\ dir'[f] = dir[f]
                    /\ ~(Done(r)' /\ response'[r].status = 200 /\ found'[r] = f)]_vars

---------------------------------------------------------------------------
(* C10: the orientation of the wheel *)

\* C10 as stated: longitude 0 is drawn at 3 o'clock (cx + r, cy) and increasing
\* longitude moves counter-clockwise on screen: 90 at 12 o'clock (cx, cy - r),
\* 180 at 9 o'clock (cx - r, cy), 270 at 6 o'clock (cx, cy + r).
C10_ZeroAriesAtThreeOClockCounterClockwise ==
    (svg_status = 200 /\ <<"natal", "Sun">> \in DOMAIN planet_positions) =>
        LET lon == natal_planets[1].abs_pos
            pos == planet_positions[<<"natal", "Sun">>]
            cx  == 1000 * CHART_CENTER
            cy  == 1000 * CHART_CENTER
            r   == 1000 * PLANET_RADIUS_NATAL
        IN  /\ lon = 0         => pos = <<cx + r, cy>>
            /\ lon = 90 * Res  => pos = <<cx, cy - r>>
            /\ lon = 180 * Res => pos = <<cx - r, cy>>
            /\ lon = 270 * Res => pos = <<cx, cy + r>>

---------------------------------------------------------------------------
(* C11, C12: what the combined renderer draws for planets and aspects *)

\* the glyphs of the drawing (one background circle per drawn planet)
Glyphs == {h \in 1..Len(drawing) : drawing[h].kind = "planet"}

\* a planet of a chart that has a longitude
HasLongitude(planet) == planet.present /\ planet.has_abs_pos

\* the two planet circles: three quarters and six tenths of the wheel radius
OuterRadius == (3 * ZODIAC_RADIUS) \div 4
InnerRadius == (6 * ZODIAC_RADIUS) \div 10

\* where a longitude falls on a circle around the centre of the chart
OnCircle(radius, lon) ==
    calculate_point_on_circle(1000 * CHART_CENTER, 1000 * CHART_CENTER, radius, lon)

\* the glyphs of a given name drawn on a given circle at a given longitude
GlyphsAt(name, radius, lon) ==
    {h \in Glyphs : drawing[h].name = name /\ drawing[h].position = OnCircle(radius, lon)}

\* the glyphs of a given name drawn in a given stroke colour
GlyphsIn(name, stroke) ==
    {h \in Glyphs : drawing[h].name = name /\ drawing[h].stroke = stroke}

\* C11: after a combined rendering, every natal planet that has a longitude is drawn
\* exactly once, on the outer circle at its own longitude, black on white; every
\* transit planet that has a longitude is drawn exactly once, on the inner circle at
\* its own longitude, blue on light blue; nothing else is drawn as a planet.
C11_EveryPlanetDrawnOnceOnItsCircle ==
    svg_status = 200 =>
        /\ \A i \in 1..Len(natal_planets) :
              HasLongitude(natal_planets[i]) =>
                  LET name == natal_planets[i].name
                      here == GlyphsAt(name, OuterRadius, natal_planets[i].abs_pos)
                  IN  /\ Cardinality(here) = 1
                      /\ GlyphsIn(name, "black") = here
                      /\ \A h \in here : drawing[h].fill = "white"
        /\ \A j \in 1..Len(transit_planets) :
              HasLongitude(transit_planets[j]) =>
                  LET name == transit_planets[j].name
                      here == GlyphsAt(name, InnerRadius, transit_planets[j].abs_pos)
                  IN  /\ Cardinality(here) = 1
                      /\ GlyphsIn(name, "blue") = here
                      /\ \A h \in here : drawing[h].fill = "lightblue"
        /\ Cardinality(Glyphs) =
              Cardinality({i \in 1..Len(natal_planets) : HasLongitude(natal_planets[i])})
              + Cardinality({j \in 1..Len(transit_planets) : HasLongitude(transit_planets[j])})

\* C11 witness: a rendering of two natal and two transit planets, all with a longitude
C11_Witness ==
    /\ svg_status = 200
    /\ \A i \in 1..Len(natal_planets) : HasLongitude(natal_planets[i])
    /\ \A j \in 1..Len(transit_planets) : HasLongitude(transit_planets[j])
    /\ Cardinality(Glyphs) = 4

\* the aspect lines of the drawing, in the order drawn
AspectLines == SelectSeq(drawing, LAMBDA e : e.kind = "line")

\* the drawn position of the one glyph of that name and stroke colour
GlyphPosition(name, stroke) ==
    drawing[CHOOSE h \in GlyphsIn(name, stroke) : TRUE].position

\* C12: after a combined rendering there are as many aspect lines as aspects found,
\* and the line of each aspect starts at the drawn position of its transit planet
\* (the blue glyph, inner circle) and ends at the drawn position of its natal planet
\* (the black glyph, outer circle).
C12_OneLinePerAspectTransitToNatal ==
    svg_status = 200 =>
        /\ Len(AspectLines) = Len(aspects_found)
        /\ \A h \in 1..Len(aspects_found) :
              /\ h <= Len(AspectLines)
              /\ AspectLines[h].aspect_name = aspects_found[h].aspect
              /\ GlyphsIn(aspects_found[h].transit_planet, "blue") # {}
              /\ GlyphsIn(aspects_found[h].natal_planet, "black") # {}
              /\ AspectLines[h].start = GlyphPosition(aspects_found[h].transit_planet, "blue")
              /\ AspectLines[h].end = GlyphPosition(aspects_found[h].natal_planet, "black")

\* C12 witness: a rendering that found aspects of both transit planets
C12_Witness ==
    /\ svg_status = 200
    /\ Len(aspects_found) >= 2
    /\ \E h, g \in 1..Len(aspects_found) :
          aspects_found[h].transit_planet # aspects_found[g].transit_planet

---------------------------------------------------------------------------
(* C13: the style of an aspect line *)

\* the colour table, by the renderer's (Portuguese) aspect names:
\* Conjunction, Opposition, Trine, Square, Sextile, Quincunx, Semi-Sextile,
\* Semi-Square, Sesquiquadrate, Quintile, Bi-Quintile
ColourTable ==
    ("Conjuncao" :> "#FF0000") @@ ("Oposicao" :> "#0000FF") @@ ("Trigono" :> "#00FF00")
    @@ ("Quadratura" :> "#FF00FF") @@ ("Sextil" :> "#FFFF00") @@ ("Quincuncio" :> "#00FFFF")
    @@ ("Semi-Sextil" :> "#FFA500") @@ ("Semi-Quadratura" :> "#800080")
    @@ ("Sesqui-Quadratura" :> "#008080") @@ ("Quintil" :> "#800000")
    @@ ("Bi-Quintil" :> "#808000")

\* width and dash pattern by aspect name
StyleTable(name) ==
    CASE name \in {"Conjuncao", "Oposicao"}    -> [width |-> 2, dash |-> "None"]
      [] name \in {"Trigono", "Sextil"}        -> [width |-> 1, dash |-> "5,3"]
      [] name \in {"Quadratura", "Quincuncio"} -> [width |-> 1, dash |-> "2,2"]
      [] OTHER                                 -> [width |-> 1, dash |-> "None"]

\* C13: every aspect line has the width and dash pattern its aspect name alone
\* selects (Conjunction and Opposition solid of width 2, Trine and Sextile dashed
\* 5,3 of width 1, Square and Quincunx dotted 2,2 of width 1, any other name solid
\* of width 1) and the colour of its name in the table, #999999 for a name that is
\* not in the table.
C13_LineStyleByAspectName ==
    \A h \in 1..Len(AspectLines) :
        LET line == AspectLines[h]
        IN  /\ line.stroke_width = StyleTable(line.aspect_name).width
            /\ line.stroke_dasharray = StyleTable(line.aspect_name).dash
            /\ line.stroke = IF line.aspect_name \in DOMAIN ColourTable
                             THEN ColourTable[line.aspect_name]
                             ELSE "#999999"

\* C13 witness: a dashed Sextile line has been drawn
C13_Witness ==
    /\ Len(AspectLines) = 1
    /\ AspectLines[1].aspect_name = "Sextil"
    /\ AspectLines[1].stroke_dasharray = "5,3"

\* a line of a name outside the table has been drawn in grey
C13_WitnessUnknownName ==
    /\ Len(AspectLines) = 1
    /\ AspectLines[1].aspect_name = "Novil"
    /\ AspectLines[1].stroke = "#999999"

---------------------------------------------------------------------------
(* C14: rendering a base chart alone *)

\* C14 as stated: a rendering that is given a natal chart and no transit chart
\* succeeds, draws every natal planet that has a longitude on the outer circle,
\* draws no transit glyph and draws no aspect line.
C14_BaseOnlyRenderingSucceeds ==
    (transit_subject = "None" /\ svg_status # 0) =>
        /\ svg_status = 200
        /\ \A i \in 1..Len(natal_planets) :
              HasLongitude(natal_planets[i]) =>
                  Cardinality(GlyphsAt(natal_planets[i].name, OuterRadius,
                                       natal_planets[i].abs_pos)) = 1
        /\ \A h \in Glyphs : drawing[h].stroke = "black"
        /\ Len(AspectLines) = 0

---------------------------------------------------------------------------
(* C15: rendering is deterministic *)

---------------------------------------------------------------------------
(* C16: the base64 endpoints *)

\* the 6-bit value of a base64 character
B64Value(ch) == CHOOSE v \in 0..63 : B64Alphabet[v + 1] = ch

\* the bytes a base64 string stands for: each four characters give three bytes,
\* two when the fourth character is padding, one when the third is padding too
RECURSIVE B64Decode(_)
B64Decode(chars) ==
    IF Len(chars) < 4 THEN <<>>
    ELSE LET v1 == B64Value(chars[1])
             v2 == B64Value(chars[2])
             b1 == v1 * 4 + v2 \div 16
         IN  IF chars[3] = "=" THEN <<b1>>
             ELSE LET v3 == B64Value(chars[3])
                      b2 == (v2 % 16) * 16 + v3 \div 4
                  IN  IF chars[4] = "=" THEN <<b1, b2>>
                      ELSE <<b1, b2, (v3 % 4) * 64 + B64Value(chars[4])>>
                           \o B64Decode(SubSeq(chars, 5, Len(chars)))

\* the prefix of a data URI of an SVG image
DataUriPrefix ==
    << "d", "a", "t", "a", ":", "i", "m", "a", "g", "e", "/", "s", "v", "g", "+",
       "x", "m", "l", ";", "b", "a", "s", "e", "6", "4", "," >>

\* the requests made to a base64 endpoint that were answered with 200
Base64Answered ==
    {r \in DOMAIN pc : /\ Done(r)
                       /\ response[r].status = 200
                       /\ req[r].endpoint \in {"svg_chart_base64", "svg_combined_chart_base64"}}

\* the bytes of the chart generated for request r
OwnBytes(r) == SubSeq(<<60, 115, 118, 103, 32, 120, 109, 108>>, 1, 2 + r)

\* C16 as stated: for every answered base64 request, decoding svg_base64 gives
\* exactly the bytes of the artifact generated for that request, and data_uri is
\* 'data:image/svg+xml;base64,' followed by the same svg_base64.
C16_Base64DecodesToOwnArtifact ==
    \A r \in Base64Answered :
        /\ B64Decode(response[r].svg_base64) = OwnBytes(r)
        /\ response[r].data_uri = DataUriPrefix \o response[r].svg_base64

\* what does hold: svg_base64 decodes to the bytes of the file the handler read,
\* and data_uri is the prefix followed by svg_base64
C16_Base64DecodesToFileRead ==
    \A r \in Base64Answered :
        /\ \E c \in Requests : B64Decode(response[r].svg_base64) = OwnBytes(c)
        /\ B64Decode(response[r].svg_base64) = OwnBytes(response[r].body)
        /\ response[r].data_uri = DataUriPrefix \o response[r].svg_base64

---------------------------------------------------------------------------
(* The HTTP handlers: which charts they hand to the oracle, and how an       *)
(* exception raised on the way is turned into a response                     *)

\* models.HouseSystem: the identifiers a request may carry
HouseSystem == {"placidus", "koch", "regiomontanus", "campanus", "equal", "whole_sign"}

\* a HOUSE_SYSTEM_MAP that lacks the whole_sign entry
HOUSE_SYSTEM_MAP_no_whole_sign ==
    ("placidus" :> "P") @@ ("koch" :> "K") @@ ("regiomontanus" :> "R")
    @@ ("campanus" :> "C") @@ ("equal" :> "E")

\* models.HOUSE_SYSTEM_MAP; a HouseSystem member is a str and is looked up by its value
HOUSE_SYSTEM_MAP ==
    ("placidus" :> "P") @@ ("koch" :> "K") @@ ("regiomontanus" :> "R")
    @@ ("campanus" :> "C") @@ ("equal" :> "E") @@ ("whole_sign" :> "W")

\* house_system_code = HOUSE_SYSTEM_MAP.get(data.house_system, "P")
house_system_code(house_system) ==
    IF house_system \in DOMAIN HOUSE_SYSTEM_MAP THEN HOUSE_SYSTEM_MAP[house_system] ELSE "P"

\* the seven routes
ApiEndpoints ==
    {"natal_chart", "current_transits", "transits_to_natal", "svg_chart",
     "svg_chart_base64", "svg_combined_chart", "svg_combined_chart_base64"}

\* the exceptions AstrologicalSubject may raise, and str(e) of each
OracleErrors == {"ValueError", "KerykeionException"}
oracle_text(error) ==
    IF error = "ValueError" THEN "day is out of range for month" ELSE "unknown time zone"

\* a request: its route, the house system of its first chart and of its transit
\* chart, chart_type and transit_chart of an SVGChartRequest, and what the oracle
\* will do: raise oracle_error on its oracle_at-th call, or never raise ("none")
ApiRequest(endpoint, house_system, transit_house_system, chart_type, has_transit_chart, oracle_error, oracle_at) ==
    [endpoint             |-> endpoint,
     house_system         |-> house_system,
     transit_house_system |-> transit_house_system,
     chart_type           |-> chart_type,
     has_transit_chart    |-> has_transit_chart,
     oracle_error         |-> oracle_error,
     oracle_at            |-> oracle_at]

\* how the oracle may react to a request of one or of two charts
OracleOneChart == {<<"none", 1>>} \cup {<<e, 1>> : e \in OracleErrors}
OracleTwoCharts == OracleOneChart \cup {<<e, 2>> : e \in OracleErrors}

InitApi ==
    /\ natal_planets = <<>>
    /\ transit_planets = <<>>
    /\ transit_subject = "subject"
    /\ DetectorStart
    /\ ScratchIdle
    /\ request \in
          {ApiRequest(e, h, "placidus", "natal", FALSE, o[1], o[2]) :
              e \in {"natal_chart", "current_transits"}, h \in HouseSystem, o \in OracleOneChart}
          \cup
          {ApiRequest(e, h, t, "combined", TRUE, o[1], o[2]) :
              e \in {"transits_to_natal", "svg_combined_chart", "svg_combined_chart_base64"},
              h \in HouseSystem, t \in {"koch", "whole_sign"}, o \in OracleTwoCharts}
          \cup
          {ApiRequest(e, h, "whole_sign", c, b, o[1], o[2]) :
              e \in {"svg_chart", "svg_chart_base64"}, h \in HouseSystem,
              c \in {"natal", "transit", "combined"}, b \in BOOLEAN, o \in OracleTwoCharts}
    /\ oracle_calls = <<>>
    /\ http = [status |-> 0, detail |-> <<>>, files_generated |-> 0]

\* the charts a handler calls create_subject for, in order, by their house system
charts_of(rq) ==
    CASE rq.endpoint \in {"natal_chart", "current_transits"} ->
             << rq.house_system >>
      [] rq.endpoint \in {"transits_to_natal", "svg_combined_chart",
                          "svg_combined_chart_base64"} ->
             << rq.house_system, rq.transit_house_system >>
      [] OTHER ->
             IF rq.has_transit_chart /\ rq.chart_type \in {"transit", "combined"}
             THEN << rq.house_system, rq.transit_house_system >>
             ELSE << rq.house_system >>

\* the create_subject calls of a handler up to the first one that raises: the codes
\* AstrologicalSubject was given, and the exception that ended the calls
create_subjects(rq) ==
    LET charts  == charts_of(rq)
        failing == IF rq.oracle_error # "none" /\ rq.oracle_at <= Len(charts)
                   THEN rq.oracle_at ELSE 0
        made    == IF failing = 0 THEN Len(charts) ELSE failing
    IN  [calls  |-> [k \in 1..made |-> house_system_code(charts[k])],
         raised |-> IF failing = 0 THEN "none" ELSE rq.oracle_error]

\* natal_chart, current_transits, transits_to_natal: "except Exception as e" ->
\* HTTPException(400, f"Erro de calculo astrologico (Kerykeion): {str(e)}")
calculation_outcome(rq) ==
    LET raised == create_subjects(rq).raised
    IN  IF raised = "none"
        THEN [status |-> 200, detail |-> <<>>, files_generated |-> 0]
        ELSE [status |-> 400,
              detail |-> <<"Erro de calculo astrologico (Kerykeion): ", oracle_text(raised)>>,
              files_generated |-> 0]

\* the decimal digits
Digits == <<"0", "1", "2", "3", "4", "5", "6", "7", "8", "9">>

\* str(n) for 0 <= n <= 99
str_of(n) == IF n < 10 THEN <<Digits[n + 1]>> ELSE <<Digits[(n \div 10) + 1], Digits[(n % 10) + 1]>>

\* int(s): the number a string of decimal digits denotes; anything else raises ValueError
RECURSIVE int_of(_)
int_of(chars) ==
    IF chars = <<>> \/ \E i \in 1..Len(chars) : \A d \in 1..10 : Digits[d] # chars[i]
    THEN [raised |-> "ValueError", value |-> 0]
    ELSE LET last == (CHOOSE d \in 1..10 : Digits[d] = chars[Len(chars)]) - 1
         IN  IF Len(chars) = 1 THEN [raised |-> "none", value |-> last]
             ELSE [raised |-> "none",
                   value  |-> 10 * int_of(SubSeq(chars, 1, Len(chars) - 1)).value + last]

\* s.split("_")[0]: the characters before the first underscore
RECURSIVE split_first(_)
split_first(chars) ==
    IF chars = <<>> \/ Head(chars) = "_" THEN <<>>
    ELSE <<Head(chars)>> \o split_first(Tail(chars))

\* get_planet_data: None unless the planet object is there and has its position;
\* house_name=p.house_name if hasattr(p, 'house_name') else "N/A"
get_planet_data(planet) ==
    IF planet.present /\ planet.has_abs_pos
    THEN [found |-> TRUE, name |-> planet.name,
          house_name |-> IF planet.has_house_name THEN planet.house_name ELSE <<"N", "/", "A">>]
    ELSE [found |-> FALSE, name |-> planet.name, house_name |-> <<>>]

\* house=int(planet_data.house_name.split("_")[0]) if "_" in planet_data.house_name else 1
house_of(house_name) ==
    IF \E i \in 1..Len(house_name) : house_name[i] = "_"
    THEN int_of(split_first(house_name))
    ELSE [raised |-> "none", value |-> 1]

\* create_natal_chart after create_subject: the planets with their houses, then the
\* aspect loop; "tuple(sorted((p1.name, p2_name)) + (asp.aspect_name,))" adds a tuple
\* to a list and raises TypeError for the first aspect of the first planet that has
\* one.  Every exception ends in 400 with str(e).
natal_chart_outcome(rq, planets) ==
    LET base    == calculation_outcome(rq)
        data    == [i \in 1..Len(planets) |-> get_planet_data(planets[i])]
        listed  == SelectSeq(data, LAMBDA d : d.found)
        houses  == [h \in 1..Len(listed) |-> house_of(listed[h].house_name)]
        failure(text) ==
            [status |-> 400, detail |-> <<"Erro de calculo astrologico (Kerykeion): ", text>>,
             files_generated |-> 0, planets |-> <<>>, aspects |-> <<>>]
    IN  IF base.status # 200
        THEN [status |-> base.status, detail |-> base.detail, files_generated |-> 0,
              planets |-> <<>>, aspects |-> <<>>]
        ELSE IF \E h \in 1..Len(houses) : houses[h].raised # "none"
        THEN failure("invalid literal for int() with base 10")
        ELSE IF \E i \in 1..Len(planets) :
                    /\ planets[i].present
                    /\ planets[i].has_aspects
                    /\ planets[i].aspects # <<>>
        THEN failure("can only concatenate list (not tuple) to list")
        ELSE [status |-> 200, detail |-> <<>>, files_generated |-> 0,
              planets |-> [h \in 1..Len(listed) |->
                              [name |-> listed[h].name, house |-> houses[h].value]],
              aspects |-> <<>>]

\* generate_svg_chart: "except ValueError as ve" -> 422 with str(ve);
\* "except Exception as e" -> 500 with type(e).__name__ only.  The handler itself
\* raises ValueError, before makeSVG, when chart_type needs a transit subject
\* and there is none.
svg_chart_outcome(rq) ==
    LET raised == create_subjects(rq).raised
        has_transit_subject == rq.has_transit_chart /\ rq.chart_type \in {"transit", "combined"}
    IN  IF raised = "ValueError"
        THEN [status |-> 422, detail |-> <<oracle_text(raised)>>, files_generated |-> 0]
        ELSE IF raised # "none"
        THEN [status |-> 500, detail |-> <<"Erro interno ao gerar grafico SVG: ", raised>>,
              files_generated |-> 0]
        ELSE IF rq.chart_type = "natal" \/ has_transit_subject
        THEN [status |-> 200, detail |-> <<>>, files_generated |-> 1]
        ELSE [status |-> 422,
              detail |-> <<"Dados de transito ('transit_chart') sao necessarios para o tipo de grafico ",
                           rq.chart_type>>,
              files_generated |-> 0]

\* generate_svg_combined_chart: the same two except clauses
svg_combined_chart_outcome(rq) ==
    LET raised == create_subjects(rq).raised
    IN  IF raised = "ValueError"
        THEN [status |-> 422, detail |-> <<oracle_text(raised)>>, files_generated |-> 0]
        ELSE IF raised # "none"
        THEN [status |-> 500,
              detail |-> <<"Erro interno ao gerar grafico SVG combinado: ", raised>>,
              files_generated |-> 0]
        ELSE [status |-> 200, detail |-> <<>>, files_generated |-> 1]

\* a base64 handler that reports every failure of the awaited handler as its own 500
base64_outcome_all_500(inner) ==
    IF inner.status = 200 THEN inner
    ELSE [status |-> 500,
          detail |-> <<"Erro interno ao gerar grafico SVG em base64: ", "HTTPException">>,
          files_generated |-> inner.files_generated]

\* the base64 handlers await the plain handler: "except HTTPException as http_exc:
\* raise http_exc" keeps its status and detail, a 200 becomes the JSON body
base64_outcome(inner) == inner

\* one handled request: the oracle calls made and the response
respond(outcome) ==
    /\ http.status = 0
    /\ oracle_calls' = create_subjects(request).calls
    /\ http' = outcome
    /\ UNCHANGED request
    /\ UNCHANGED detector_vars
    /\ UNCHANGED scratch_vars

\* POST /api/v1/natal_chart
natal_chart ==
    /\ request.endpoint = "natal_chart"
    /\ respond(natal_chart_outcome(request, natal_planets))

\* POST /api/v1/current_transits
current_transits ==
    /\ request.endpoint = "current_transits"
    /\ respond(calculation_outcome(request))

\* POST /api/v1/transits_to_natal
transits_to_natal ==
    /\ request.endpoint = "transits_to_natal"
    /\ respond(calculation_outcome(request))

\* POST /api/v1/svg_chart
svg_chart ==
    /\ request.endpoint = "svg_chart"
    /\ respond(svg_chart_outcome(request))

\* POST /api/v1/svg_chart_base64
svg_chart_base64 ==
    /\ request.endpoint = "svg_chart_base64"
    /\ respond(base64_outcome(svg_chart_outcome(request)))

\* POST /api/v1/svg_combined_chart
svg_combined_chart ==
    /\ request.endpoint = "svg_combined_chart"
    /\ respond(svg_combined_chart_outcome(request))

\* POST /api/v1/svg_combined_chart_base64
svg_combined_chart_base64 ==
    /\ request.endpoint = "svg_combined_chart_base64"
    /\ respond(base64_outcome(svg_combined_chart_outcome(request)))

NextApi ==
    \/ natal_chart
    \/ current_transits
    \/ transits_to_natal
    \/ svg_chart
    \/ svg_chart_base64
    \/ svg_combined_chart
    \/ svg_combined_chart_base64

SpecApi == InitApi /\ [][NextApi]_vars

---------------------------------------------------------------------------
(* C17: the house-system mapping *)

\* the oracle's code of each identifier
CodeOf(identifier) ==
    CASE identifier = "placidus"      -> "P"
      [] identifier = "koch"          -> "K"
      [] identifier = "regiomontanus" -> "R"
      [] identifier = "campanus"      -> "C"
      [] identifier = "equal"         -> "E"
      [] identifier = "whole_sign"    -> "W"

\* the house system of the k-th chart a handled request handed to the oracle:
\* its first chart, then its transit chart
ChartHouseSystem(k) ==
    IF k = 1 THEN request.house_system ELSE request.transit_house_system

\* C17: every chart a request hands to the oracle reaches it with the code of that
\* chart's own house_system (placidus P, koch K, regiomontanus R, campanus C,
\* equal E, whole_sign W), and every handled request has handed over at least its
\* first chart; "P" is received for placidus only.
C17_OracleReceivesOwnHouseSystemCode ==
    http.status # 0 =>
        /\ Len(oracle_calls) >= 1
        /\ \A k \in 1..Len(oracle_calls) :
              /\ oracle_calls[k] = CodeOf(ChartHouseSystem(k))
              /\ oracle_calls[k] = "P" => ChartHouseSystem(k) = "placidus"

\* C17 witness: a request of two charts, regiomontanus and whole_sign, was answered
C17_Witness ==
    /\ http.status = 200
    /\ request.house_system = "regiomontanus"
    /\ request.transit_house_system = "whole_sign"
    /\ oracle_calls = <<"R", "W">>

---------------------------------------------------------------------------
(* C18, C19: failures *)

\* the oracle raised while a chart of the handled request was computed
OracleRaised ==
    /\ http.status # 0
    /\ request.oracle_error \in {"ValueError", "KerykeionException"}
    /\ request.oracle_at <= Len(oracle_calls)

\* the text of the exception the oracle raised
OracleErrorText ==
    IF request.oracle_error = "ValueError" THEN "day is out of range for month"
    ELSE "unknown time zone"

\* C18 as stated: when the oracle raises in any endpoint, the request ends in a
\* failure response that is not an input-validation (422) response and whose detail
\* carries the oracle's own error text, and the oracle is not called again.
C18_OracleFailureKeepsTextNever422 ==
    OracleRaised =>
        /\ http.status \notin {200, 422}
        /\ \E part \in 1..Len(http.detail) : http.detail[part] = OracleErrorText
        /\ Len(oracle_calls) = request.oracle_at

\* what holds in every endpoint: the request fails and the oracle is not called again
C18_OracleFailureFailsTheRequest ==
    OracleRaised =>
        /\ http.status \in {400, 422, 500}
        /\ http.files_generated = 0
        /\ Len(oracle_calls) = request.oracle_at

\* an svg_chart request that needs a transit chart and carries none
MissingTransitChart ==
    /\ http.status # 0
    /\ request.endpoint \in {"svg_chart", "svg_chart_base64"}
    /\ request.chart_type \in {"transit", "combined"}
    /\ ~request.has_transit_chart

---------------------------------------------------------------------------
(* C20: no partial results *)

\* a planet of the natal or of the transit chart whose data cannot be obtained:
\* the planet object is empty or has no longitude
MissingPlanets ==
    {natal_planets[i].name : i \in {k \in 1..Len(natal_planets) : ~HasLongitude(natal_planets[k])}}
    \cup
    {transit_planets[j].name :
        j \in {k \in 1..Len(transit_planets) : ~HasLongitude(transit_planets[k])}}

\* C20 as stated: when the data of some planet cannot be obtained, the operation
\* fails as a whole: neither the aspect list of transits_to_natal nor the drawing
\* of the combined renderer is returned with that planet left out.
C20_MissingPlanetFailsTheOperation ==
    MissingPlanets # {} =>
        /\ transits_status # 200
        /\ svg_status # 200

---------------------------------------------------------------------------
(* C21: no pair within any orb *)

\* no (natal planet, transit planet) pair is within the orb of any table entry
NoPairMatches ==
    \A p \in Pairs : \A k \in 1..Len(SpecTable) :
        Distance(SmallerArc(NatalLon(p), TransitLon(p)), SpecTable[k][2] * Res)
            > SpecTable[k][3] * Res

\* C21: when no pair matches any table entry, transits_to_natal answers 200 with an
\* empty aspects_to_natal list, and the combined renderer saves a chart that records
\* no aspect and holds no aspect line.
C21_NoMatchIsEmptyNotAnError ==
    NoPairMatches =>
        /\ transits_status \in {0, 200}
        /\ transits_status = 200 => aspects_to_natal = <<>>
        /\ svg_status \in {0, 200}
        /\ svg_status = 200 => (aspects_found = <<>> /\ Len(AspectLines) = 0)

\* C21 witness: both operations have run on two natal planets and a transit planet,
\* neither pair within an orb, and the chart still shows the three glyphs
C21_Witness ==
    /\ NoPairMatches
    /\ Cardinality(Pairs) = 2
    /\ transits_status = 200
    /\ svg_status = 200
    /\ Cardinality(Glyphs) = 3

---------------------------------------------------------------------------
(* The path generate_combined_chart saves the chart to.  A string is a         *)
(* sequence of characters, a path a sequence of components.                    *)

\* the characters chart names are made of here
NameChars == {"a", "/", ".", " "}

\* all strings of at most n of these characters
NamesUpTo(n) == UNION {[1..k -> NameChars] : k \in 0..n}

\* Path("/tmp/astro_svg")
temp_dir == << <<"t", "m", "p">>, <<"a", "s", "t", "r", "o", "_", "s", "v", "g">> >>

\* the directories that exist when the chart is saved: /, /tmp and /tmp/astro_svg
existing_dirs == {<<>>, <<temp_dir[1]>>, temp_dir}

\* name=getattr(data, 'name', default_name) or default_name
subject_name(name, default_name) == IF name = <<>> THEN default_name ELSE name

\* the components of a string, as pathlib parses it: split at "/", empty
\* components and "." components dropped
RECURSIVE components(_, _)
components(chars, current) ==
    LET keep == IF current = <<>> \/ current = <<".">> THEN <<>> ELSE <<current>>
    IN  IF chars = <<>> THEN keep
        ELSE IF Head(chars) = "/" THEN keep \o components(Tail(chars), <<>>)
        ELSE components(Tail(chars), Append(current, Head(chars)))

\* output_dir / file_name: an absolute file_name replaces output_dir
path_join(output_dir, name) ==
    IF name # <<>> /\ Head(name) = "/"
    THEN components(name, <<>>)
    ELSE output_dir \o components(name, <<>>)

\* the path the operating system opens: ".." steps to the parent directory
RECURSIVE resolve(_, _)
resolve(path, done) ==
    IF path = <<>> THEN done
    ELSE IF Head(path) = <<".", ".">>
         THEN resolve(Tail(path), IF done = <<>> THEN <<>> ELSE SubSeq(done, 1, Len(done) - 1))
         ELSE resolve(Tail(path), Append(done, Head(path)))

\* file_name = f"{natal_subject.name}_com_transitos_{transit_subject.name}.svg"
\* output_path = output_dir / file_name
output_path(output_dir, natal_name, transit_name) ==
    path_join(output_dir,
              natal_name
              \o <<"_", "c", "o", "m", "_", "t", "r", "a", "n", "s", "i", "t", "o", "s", "_">>
              \o transit_name \o <<".", "s", "v", "g">>)

\* a svg_combined_chart request with its two chart names
InitPath ==
    /\ natal_planets = <<>>
    /\ transit_planets = <<>>
    /\ transit_subject = "subject"
    /\ DetectorStart
    /\ ScratchIdle
    /\ request \in {[endpoint |-> "svg_combined_chart", natal_name |-> n, transit_name |-> t] :
                       n \in NamesUpTo(MaxNameLen), t \in NamesUpTo(1)}
    /\ oracle_calls = <<>>
    /\ http = [status |-> 0, detail |-> <<>>, files_generated |-> 0]

\* generate_svg_combined_chart up to the saved file: the subjects get their names,
\* the scratch directory is cleared, generate_combined_chart builds the path and
\* dwg.save() opens it for writing, which raises FileNotFoundError (-> 500) when
\* the directory of the path does not exist
save_combined_chart ==
    /\ http.status = 0
    /\ LET natal_name   == subject_name(request.natal_name,
                               <<"N", "a", "t", "a", "l", " ", "C", "h", "a", "r", "t">>)
           transit_name == subject_name(request.transit_name,
                               <<"T", "r", "a", "n", "s", "i", "t", " ", "C", "h", "a", "r", "t">>)
           opened       == resolve(output_path(temp_dir, natal_name, transit_name), <<>>)
           parent       == SubSeq(opened, 1, Len(opened) - 1)
       IN  IF parent \in existing_dirs
           THEN /\ dir' = (opened :> [content |-> 0, mtime |-> clock, writer |-> 0])
                /\ found' = opened
                /\ http' = [status |-> 200, detail |-> <<>>, files_generated |-> 1]
           ELSE /\ dir' = <<>>
                /\ found' = <<>>
                /\ http' = [status |-> 500,
                            detail |-> <<"Erro interno ao gerar grafico SVG combinado: ",
                                         "FileNotFoundError">>,
                            files_generated |-> 0]
    /\ UNCHANGED <<clock, req, pc, response, request, oracle_calls>>
    /\ UNCHANGED detector_vars

NextPath == save_combined_chart

SpecPath == InitPath /\ [][NextPath]_vars

---------------------------------------------------------------------------
(* C22: the name of the combined chart file *)

\* letters, digits, underscore and hyphen
WordChars ==
    {"a", "b", "c", "d", "e", "f", "g", "h", "i", "j", "k", "l", "m", "n", "o", "p", "q",
     "r", "s", "t", "u", "v", "w", "x", "y", "z", "C", "N", "T",
     "0", "1", "2", "3", "4", "5", "6", "7", "8", "9", "_", "-"}

\* a name with every other character replaced by "_"
Sanitized(name) == [i \in 1..Len(name) |-> IF name[i] \in WordChars THEN name[i] ELSE "_"]

\* the name a chart is given when the request carries none
NameOrDefault(name, default_name) == IF Len(name) = 0 THEN default_name ELSE name

\* C22 as stated: the combined chart is saved, for any chart names, directly inside
\* the output directory /tmp/astro_svg, under the file name made of the sanitized
\* natal name, "_com_transitos_", the sanitized transit name and ".svg".
C22_FileNameSanitizedInsideOutputDir ==
    http.status # 0 =>
        LET natal   == Sanitized(NameOrDefault(request.natal_name,
                           <<"N", "a", "t", "a", "l", " ", "C", "h", "a", "r", "t">>))
            transit == Sanitized(NameOrDefault(request.transit_name,
                           <<"T", "r", "a", "n", "s", "i", "t", " ", "C", "h", "a", "r", "t">>))
        IN  /\ http.status = 200
            /\ Len(found) = 3
            /\ found[1] = <<"t", "m", "p">>
            /\ found[2] = <<"a", "s", "t", "r", "o", "_", "s", "v", "g">>
            /\ found[3] = natal \o <<"_", "c", "o", "m", "_", "t", "r", "a", "n", "s", "i",
                                     "t", "o", "s", "_">> \o transit \o <<".", "s", "v", "g">>


\* a chart file has been created outside /tmp/astro_svg
C22_FileOutsideOutputDir ==
    /\ http.status = 200
    /\ found # <<>>
    /\ SubSeq(found, 1, Len(found) - 1) # << <<"t", "m", "p">>,
                                             <<"a", "s", "t", "r", "o", "_", "s", "v", "g">> >>

---------------------------------------------------------------------------
(* C23: what a finished request leaves in the scratch directory *)

\* the files in the scratch directory that request r created
FilesCreatedBy(r) == {f \in DOMAIN dir : dir[f].writer = r}

\* C23 as stated: once an SVG request has finished, whether it succeeded or failed,
\* the scratch directory holds no file created by that request.
C23_FinishedRequestLeavesNoFile ==
    \A r \in DOMAIN pc : Done(r) => FilesCreatedBy(r) = {}

---------------------------------------------------------------------------
(* natal_chart on the planets of the oracle's subject: their houses and        *)
(* their aspect lists                                                          *)

\* the ordinals in the names of the twelve houses
Ordinals ==
    << <<"F", "i", "r", "s", "t">>,
       <<"S", "e", "c", "o", "n", "d">>,
       <<"T", "h", "i", "r", "d">>,
       <<"F", "o", "u", "r", "t", "h">>,
       <<"F", "i", "f", "t", "h">>,
       <<"S", "i", "x", "t", "h">>,
       <<"S", "e", "v", "e", "n", "t", "h">>,
       <<"E", "i", "g", "h", "t", "h">>,
       <<"N", "i", "n", "t", "h">>,
       <<"T", "e", "n", "t", "h">>,
       <<"E", "l", "e", "v", "e", "n", "t", "h">>,
       <<"T", "w", "e", "l", "f", "t", "h">> >>

\* how the oracle may present the house h of a planet: as "3_House", as
\* "Third_House", or under another attribute than house_name
HouseFormats == {"number", "ordinal", "no house_name"}

house_name_of(h, format) ==
    IF format = "number" THEN str_of(h) \o <<"_", "H", "o", "u", "s", "e">>
    ELSE IF format = "no house_name" THEN <<>>
    ELSE Ordinals[h] \o <<"_", "H", "o", "u", "s", "e">>

\* a planet of the oracle's subject with its house and its aspect list
\* (aspects "None": the planet object has no aspects attribute)
SubjectPlanet(name, h, format, aspects) ==
    [present       |-> TRUE,
     has_abs_pos   |-> TRUE,
     name          |-> name,
     abs_pos       |-> 0,
     house         |-> h,
     has_house_name |-> format # "no house_name",
     house_name    |-> house_name_of(h, format),
     has_aspects   |-> aspects # "None",
     aspects       |-> IF aspects = "None" THEN <<>> ELSE aspects]

\* the aspect lists the oracle may attach to the Sun and to the Moon
SunAspects ==
    {"None", <<>>,
     << [p2_name |-> "Moon", aspect_name |-> "trine"] >>,
     << [p2_name |-> "Moon", aspect_name |-> "trine"],
        [p2_name |-> "Moon", aspect_name |-> "square"] >>}
MoonAspects == {"None", << [p2_name |-> "Sun", aspect_name |-> "trine"] >>}

InitNatal ==
    /\ natal_planets \in
          {<< SubjectPlanet("Sun", h, f, a), SubjectPlanet("Moon", 7, f, b) >> :
              h \in 1..12, f \in HouseFormats, a \in SunAspects, b \in MoonAspects}
    /\ transit_planets = <<>>
    /\ transit_subject = "subject"
    /\ DetectorStart
    /\ ScratchIdle
    /\ request = ApiRequest("natal_chart", "placidus", "placidus", "natal", FALSE, "none", 1)
    /\ oracle_calls = <<>>
    /\ http = [status |-> 0, detail |-> <<>>, files_generated |-> 0]

NextNatal == natal_chart

SpecNatal == InitNatal /\ [][NextNatal]_vars

---------------------------------------------------------------------------
(* C24, C28: the natal_chart response *)

\* C24 as stated: every planet of a successful natal_chart response has a house in
\* 1..12 that is the house the oracle assigned to that planet.
C24_HouseIsTheOraclesHouse ==
    (request.endpoint = "natal_chart" /\ http.status = 200) =>
        \A h \in 1..Len(http.planets) :
            /\ http.planets[h].house \in 1..12
            /\ \E i \in 1..Len(natal_planets) :
                  /\ natal_planets[i].name = http.planets[h].name
                  /\ natal_planets[i].house = http.planets[h].house

\* C28 as stated: when the oracle's planets expose aspect lists, natal_chart
\* succeeds and its aspects hold each reported (unordered pair, aspect name)
\* exactly once.
C28_EachAspectListedOnce ==
    (request.endpoint = "natal_chart" /\ http.status # 0
        /\ \E i \in 1..Len(natal_planets) : natal_planets[i].has_aspects) =>
        /\ http.status = 200
        /\ \A i \in 1..Len(natal_planets) : \A k \in 1..Len(natal_planets[i].aspects) :
              Cardinality({e \in 1..Len(http.aspects) :
                  /\ {http.aspects[e].p1_name, http.aspects[e].p2_name}
                        = {natal_planets[i].name, natal_planets[i].aspects[k].p2_name}
                  /\ http.aspects[e].aspect = natal_planets[i].aspects[k].aspect_name}) = 1

---------------------------------------------------------------------------
(* C25: the two aspect detectors agree *)

\* the English and the Portuguese name that stand for the same (exact angle, max orb)
Corresponds(english, portuguese) ==
    \E k \in 1..Len(aspect_types) : \E l \in 1..Len(svg_aspect_types) :
        /\ aspect_types[k].name = english
        /\ svg_aspect_types[l].name = portuguese
        /\ aspect_types[k].aspect_angle = svg_aspect_types[l].aspect_angle
        /\ aspect_types[k].max_orb = svg_aspect_types[l].max_orb

EnglishNames == {aspect_types[k].name : k \in 1..Len(aspect_types)}
PortugueseNames == {svg_aspect_types[l].name : l \in 1..Len(svg_aspect_types)}

\* the English names that correspond to each Portuguese name
EnglishOf == [p \in PortugueseNames |-> {e \in EnglishNames : Corresponds(e, p)}]

\* every name of either table has exactly one counterpart in the other
OneToOne ==
    /\ \A p \in PortugueseNames : Cardinality(EnglishOf[p]) = 1
    /\ \A e \in EnglishNames : Cardinality({p \in PortugueseNames : e \in EnglishOf[p]}) = 1

\* the (transit planet, natal planet, English name) triples of each detector
TransitTriples ==
    {<<aspects_to_natal[h].transit_planet, aspects_to_natal[h].natal_planet_or_point,
       aspects_to_natal[h].aspect_name>> : h \in 1..Len(aspects_to_natal)}
RendererTriples ==
    UNION {{<<aspects_found[h].transit_planet, aspects_found[h].natal_planet, e>> :
                e \in EnglishOf[aspects_found[h].aspect]} : h \in 1..Len(aspects_found)}

\* C25: the names of the two tables correspond one to one by (angle, max orb), and
\* once both detectors have run on the same charts, the renderer recorded an aspect
\* for exactly the (transit planet, natal planet, table entry) triples that
\* transits_to_natal returned.
C25_DetectorsAgree ==
    /\ OneToOne
    /\ (transits_status = 200 /\ svg_status = 200) =>
          /\ RendererTriples = TransitTriples
          /\ Len(aspects_found) = Len(aspects_to_natal)

\* both detectors have found several aspects and list them in different orders
C25_Witness ==
    /\ transits_status = 200
    /\ svg_status = 200
    /\ Len(aspects_to_natal) >= 2
    /\ aspects_to_natal[1].natal_planet_or_point # aspects_found[1].natal_planet
    /\ aspects_to_natal[1].orbit # aspects_found[1].orb

---------------------------------------------------------------------------
(* The SVG handlers on one cooperative event loop: a handler runs without      *)
(* interruption up to its return (none of the four has a suspension point of   *)
(* its own; "await generate_svg_chart(data)" runs the awaited handler in       *)
(* place), and the FileResponse of svg_combined_chart is sent afterwards       *)

\* a clearing loop that removes nothing
unlink_none(files) == files

\* for old_file in temp_dir.glob("*.svg"): old_file.unlink()
unlink_all(files) == [f \in {} |-> files[f]]

\* chart.makeSVG() / dwg.save() of request r at time now
written(files, r, now) ==
    (file_name(r) :> [content |-> artifact(r), mtime |-> now, writer |-> r]) @@ files

\* a loop on which the file of svg_combined_chart_base64 too is read after a suspension
deferred_also_base64(endpoint) == renderer(endpoint) = "svg_combined_chart"

\* the handler returns FileResponse(path=svg_path) to the server, which opens and
\* sends the file after the handler is over
deferred(endpoint) == endpoint = "svg_combined_chart"

\* one handler from its first statement to its return
run_handler(r) ==
    /\ pc[r] = "clear"
    /\ LET made == written(unlink_all(dir), r, clock + 1)
       IN  IF renderer(req[r].endpoint) = "svg_chart"
           THEN LET svg_file_path == newest(made)
                IN  /\ response' = [response EXCEPT
                                        ![r] = answer(r, 200, made[svg_file_path].content)]
                    /\ found' = [found EXCEPT ![r] = svg_file_path]
                    /\ dir' = [f \in DOMAIN made \ {svg_file_path} |-> made[f]]
                    /\ pc' = [pc EXCEPT ![r] = "done"]
           ELSE IF deferred(req[r].endpoint)
           THEN /\ dir' = made
                /\ found' = [found EXCEPT ![r] = file_name(r)]
                /\ pc' = [pc EXCEPT ![r] = "send"]
                /\ UNCHANGED response
           ELSE /\ dir' = made
                /\ found' = [found EXCEPT ![r] = file_name(r)]
                /\ response' = [response EXCEPT
                                    ![r] = answer(r, 200, made[file_name(r)].content)]
                /\ pc' = [pc EXCEPT ![r] = "done"]
    /\ clock' = clock + 1
    /\ UNCHANGED req
    /\ UNCHANGED detector_vars
    /\ UNCHANGED api_vars

NextLoop ==
    \E r \in Requests :
        \/ run_handler(r)
        \/ send_file(r)

SpecLoop == InitSvg /\ [][NextLoop]_vars

\* requests processed strictly one after another: a request starts when all
\* before it have delivered their responses
NextSeq ==
    \E r \in Requests :
        /\ \A q \in Requests : q < r => pc[q] = "done"
        /\ \/ run_handler(r)
           \/ send_file(r)

SpecSeq == InitSvg /\ [][NextSeq]_vars

---------------------------------------------------------------------------
(* C26, C27: the scratch directory on one event loop and under sequential use *)

\* C26: on one event loop every finished svg_chart, svg_chart_base64 and
\* svg_combined_chart_base64 request, whatever other requests overlap with it, is
\* answered with the chart file that this request wrote.
C26_AtomicHandlersReturnOwnFile ==
    \A r \in DOMAIN pc :
        (Done(r) /\ req[r].endpoint
                        \in {"svg_chart", "svg_chart_base64", "svg_combined_chart_base64"}) =>
            /\ response[r].status = 200
            /\ response[r].body = r
            /\ req[r].endpoint # "svg_chart" =>
                  B64Decode(response[r].svg_base64) = OwnBytes(r)

\* a svg_combined_chart_base64 request was answered while a svg_combined_chart
\* request for a chart of the same name was waiting for its file to be sent
C26_Witness ==
    \E r \in DOMAIN pc : \E q \in DOMAIN pc :
        /\ Done(r)
        /\ req[r].endpoint = "svg_combined_chart_base64"
        /\ response[r].status = 200
        /\ pc[q] = "send"
        /\ req[q].name = req[r].name

\* C27: when svg_chart and svg_combined_chart requests are processed one after
\* another, the scratch directory never holds more than one file, and a file in it
\* was written by the most recent request, a svg_combined_chart request.
C27_SequentialLeavesAtMostOneFile ==
    (\A r \in DOMAIN req : req[r].endpoint \in {"svg_chart", "svg_combined_chart"}) =>
        /\ Cardinality(DOMAIN dir) <= 1
        /\ \A f \in DOMAIN dir :
              /\ req[dir[f].writer].endpoint = "svg_combined_chart"
              /\ \A q \in DOMAIN pc : q > dir[f].writer => pc[q] = "clear"

\* two svg_combined_chart requests for charts of different names have been
\* served one after the other, and one file is left
C27_Witness ==
    /\ \A r \in DOMAIN pc : Done(r) /\ req[r].endpoint = "svg_combined_chart"
    /\ \E r \in DOMAIN pc : \E q \in DOMAIN pc : req[r].name # req[q].name
    /\ Cardinality(DOMAIN dir) = 1

---------------------------------------------------------------------------
(* transits_to_natal on subjects that carry the lunar nodes and Chiron *)

NodeLongitudes == {Deg(10), Deg(100), Deg(250)}

InitTransits ==
    /\ natal_planets \in
          {<< Planet("Sun", Deg(a)), Planet("Moon", Deg(200)), Planet("Mean_Node", n), c >> :
              a \in {10 * k : k \in 0..35}, n \in NodeLongitudes,
              c \in {NoPlanet("Chiron"), Planet("Chiron", Deg(130))}}
    /\ transit_planets \in
          {<< Planet("Sun", Deg(130)), Planet("Moon", Deg(28)), Planet("True_Node", n), c >> :
              n \in NodeLongitudes,
              c \in {NoPlanet("Chiron"), Planet("Chiron", Deg(200))}}
    /\ transit_subject = "subject"
    /\ DetectorStart
    /\ ScratchIdle
    /\ ApiIdle

NextTransits == get_transits_to_natal

SpecTransits == InitTransits /\ [][NextTransits]_vars

---------------------------------------------------------------------------
(* C30: which bodies the aspects of transits_to_natal name *)

\* Sun to Pluto
TenPlanets ==
    {"Sun", "Moon", "Mercury", "Venus", "Mars", "Jupiter", "Saturn", "Uranus", "Neptune",
     "Pluto"}

\* C30: every aspect of transits_to_natal is between two of the ten planets Sun to
\* Pluto, never a lunar node or Chiron; the list has at most 10 x 10 x 11 entries and
\* no (transit planet, natal planet, aspect name) triple occurs twice.
C30_AspectsOnlyAmongTenPlanets ==
    transits_status = 200 =>
        /\ \A h \in 1..Len(aspects_to_natal) :
              /\ aspects_to_natal[h].transit_planet \in TenPlanets
              /\ aspects_to_natal[h].natal_planet_or_point \in TenPlanets
        /\ Len(aspects_to_natal) <= 10 * 10 * 11
        /\ \A h \in 1..Len(aspects_to_natal) : \A k \in 1..Len(aspects_to_natal) :
              (/\ aspects_to_natal[h].transit_planet = aspects_to_natal[k].transit_planet
               /\ aspects_to_natal[h].natal_planet_or_point
                     = aspects_to_natal[k].natal_planet_or_point
               /\ aspects_to_natal[h].aspect_name = aspects_to_natal[k].aspect_name) => h = k

\* the response lists a node and Chiron among the transit positions, natal Chiron
\* stands exactly where the transit Sun is, and aspects were found
C30_Witness ==
    /\ transits_status = 200
    /\ \E h \in 1..Len(http.transit_planets_positions) :
          http.transit_planets_positions[h].name = "True_Node"
    /\ \E h \in 1..Len(http.transit_planets_positions) :
          http.transit_planets_positions[h].name = "Chiron"
    /\ \E i \in 1..Len(natal_planets) : \E j \in 1..Len(transit_planets) :
          /\ natal_planets[i].name = "Chiron"
          /\ natal_planets[i].present
          /\ transit_planets[j].name = "Sun"
          /\ natal_planets[i].abs_pos = transit_planets[j].abs_pos
    /\ Len(aspects_to_natal) >= 2

---------------------------------------------------------------------------
(* The MCP server: call_tool and the API request it makes *)

\* the tools of list_tools
Tools ==
    {"calculate_natal_chart", "get_current_transits", "calculate_transits_to_natal",
     "generate_svg_chart", "generate_combined_svg_chart", "get_astrology_interpretation"}

\* what the API may do with a request: answer 200 with the expected body, answer
\* 200 with JSON that lacks the expected keys, answer with an error status, answer
\* 200 with a body that is not JSON, or not be reachable at all
ApiOutcomes ==
    {<<"ok", 200>>, <<"malformed", 200>>, <<"not_json", 200>>, <<"transport", 0>>,
     <<"status", 400>>, <<"status", 401>>, <<"status", 422>>, <<"status", 500>>}

\* the endpoint a tool posts to
tool_endpoint(name, return_base64) ==
    CASE name = "calculate_natal_chart" -> "/api/v1/natal_chart"
      [] name = "get_current_transits" -> "/api/v1/current_transits"
      [] name = "calculate_transits_to_natal" -> "/api/v1/transits_to_natal"
      [] name = "generate_svg_chart" ->
            IF return_base64 THEN "/api/v1/svg_chart_base64" ELSE "/api/v1/svg_chart"
      [] name = "generate_combined_svg_chart" ->
            IF return_base64 THEN "/api/v1/svg_combined_chart_base64"
            ELSE "/api/v1/svg_combined_chart"
      [] OTHER -> "none"

\* make_api_request: raise_for_status() raises HTTPStatusError on an error status,
\* client.post raises on a transport failure, response.json() on a body that is
\* not JSON; an image/svg body is returned as {"svg_content": text}
make_api_request(endpoint, outcome) ==
    CASE outcome[1] = "transport" ->
            [raised |-> "ConnectError", status |-> 0, result |-> "none"]
      [] outcome[1] = "status" ->
            [raised |-> "HTTPStatusError", status |-> outcome[2], result |-> "none"]
      [] outcome[1] = "not_json" ->
            [raised |-> "JSONDecodeError", status |-> 200, result |-> "none"]
      [] outcome[1] = "malformed" ->
            [raised |-> "none", status |-> 200, result |-> "other keys"]
      [] OTHER ->
            [raised |-> "none", status |-> 200,
             result |-> IF endpoint \in {"/api/v1/svg_chart", "/api/v1/svg_combined_chart"}
                        THEN "svg_content" ELSE "expected keys"]

\* the body of the try block of call_tool: the text it returns or the exception
\* that leaves it, and the API requests sent on the way
tool_body(rq) ==
    LET endpoint == tool_endpoint(rq.name, rq.return_base64)
        api      == make_api_request(endpoint, rq.outcome)
        returns(text, calls) ==
            [raised |-> "none", status |-> 0, text |-> text, calls |-> calls]
        raises(kind, status) ==
            [raised |-> kind, status |-> status, text |-> <<>>, calls |-> <<endpoint>>]
    IN  IF rq.name = "get_astrology_interpretation"
        THEN returns(<<"**Interpretacao Astrologica - Foco: ", "focus.title()">>, <<>>)
        ELSE IF rq.name \notin Tools
        THEN returns(<<"Ferramenta '", rq.name, "' nao encontrada">>, <<>>)
        ELSE IF api.raised # "none"
        THEN raises(api.raised, api.status)
        ELSE IF rq.name \in {"calculate_natal_chart", "get_current_transits",
                             "calculate_transits_to_natal"}
        THEN IF api.result = "expected keys"
             THEN returns(<<"**", rq.name, "**">>, <<endpoint>>)
             ELSE raises("KeyError", 0)
        ELSE IF rq.return_base64
        THEN returns(<<"Grafico SVG gerado em Base64:",
                       IF api.result = "expected keys" THEN "data_uri" ELSE "Erro ao gerar">>,
                     <<endpoint>>)
        ELSE IF api.result = "svg_content"
        THEN returns(<<"Grafico SVG gerado com sucesso!", "svg_content">>, <<endpoint>>)
        ELSE returns(<<"Erro ao gerar grafico SVG">>, <<endpoint>>)

\* a handler whose only except clause is the one for HTTPStatusError
tool_result_without_generic_clause(body) ==
    IF body.raised = "none"
    THEN [raised |-> "none", content |-> << [type |-> "text", text |-> body.text] >>]
    ELSE IF body.raised = "HTTPStatusError"
    THEN [raised |-> "none",
          content |-> << [type |-> "text",
                          text |-> <<"Erro na API: ", body.status, " - ", "response.text">>] >>]
    ELSE [raised |-> body.raised, content |-> <<>>]

\* the two except clauses: HTTPStatusError -> "Erro na API: {status} - {text}",
\* any other Exception -> "Erro interno: {str(e)}"
tool_result(body) ==
    IF body.raised = "none"
    THEN [raised |-> "none", content |-> << [type |-> "text", text |-> body.text] >>]
    ELSE IF body.raised = "HTTPStatusError"
    THEN [raised |-> "none",
          content |-> << [type |-> "text",
                          text |-> <<"Erro na API: ", body.status, " - ", "response.text">>] >>]
    ELSE [raised |-> "none",
          content |-> << [type |-> "text", text |-> <<"Erro interno: ", body.raised>>] >>]

InitMcp ==
    /\ natal_planets = <<>>
    /\ transit_planets = <<>>
    /\ transit_subject = "subject"
    /\ DetectorStart
    /\ ScratchIdle
    /\ request \in [name : Tools \cup {"calculate_synastry"},
                    return_base64 : BOOLEAN,
                    outcome : ApiOutcomes]
    /\ oracle_calls = <<>>
    /\ http = <<>>

\* one call of the tool handler
call_tool ==
    /\ http = <<>>
    /\ http' = tool_result(tool_body(request))
    /\ oracle_calls' = tool_body(request).calls
    /\ UNCHANGED request
    /\ UNCHANGED detector_vars
    /\ UNCHANGED scratch_vars

NextMcp == call_tool

SpecMcp == InitMcp /\ [][NextMcp]_vars

---------------------------------------------------------------------------
(* C29: call_tool never raises *)

\* the tools that post to the API, and those that format the JSON they get
ApiTools ==
    {"calculate_natal_chart", "get_current_transits", "calculate_transits_to_natal",
     "generate_svg_chart", "generate_combined_svg_chart"}
FormattingTools ==
    {"calculate_natal_chart", "get_current_transits", "calculate_transits_to_natal"}

\* the text of the single item of the result
ResultText == http.content[1].text

\* C29: whatever the tool name and the outcome of the API request, call_tool returns
\* a result with one text item; after an HTTP error status the text starts with
\* "Erro na API: " and the status, after a transport or formatting exception with
\* "Erro interno:", and for a name that is not one of the six tools it is the
\* "not found" text and no API request was sent.
C29_CallToolNeverRaises ==
    http # <<>> =>
        /\ http.raised = "none"
        /\ Len(http.content) = 1
        /\ http.content[1].type = "text"
        /\ (request.name \in ApiTools /\ request.outcome[1] = "status") =>
              /\ ResultText[1] = "Erro na API: "
              /\ ResultText[2] = request.outcome[2]
        /\ (request.name \in ApiTools /\ request.outcome[1] \in {"transport", "not_json"}) =>
              ResultText[1] = "Erro interno: "
        /\ (request.name \in FormattingTools /\ request.outcome[1] = "malformed") =>
              ResultText[1] = "Erro interno: "
        /\ request.name \notin ApiTools \cup {"get_astrology_interpretation"} =>
              /\ ResultText = <<"Ferramenta '", request.name, "' nao encontrada">>
              /\ oracle_calls = <<>>

\* a tool's API request failed on the transport and the call returned its text
C29_Witness ==
    /\ http # <<>>
    /\ request.name = "calculate_natal_chart"
    /\ request.outcome[1] = "transport"
    /\ oracle_calls = <<"/api/v1/natal_chart">>
    /\ http.raised = "none"

============================================================================
